---- MODULE Spec2Model ----
(***************************************************************************)
(* A model of the jeff65 parser generator and LR runtime                   *)
(* (src/jeff65/parsing.py): TextSpan, ReStream, Lexer, Rule, ItemSet,      *)
(* Grammar, TranslationTable and Parser.                                   *)
(*                                                                         *)
(* Conventions.  Python's None is NoneSym for a symbol, NoPrec for a       *)
(* precedence, NoPointer for a pointer and NoState for a state.  Bare      *)
(* nonterminals are the strings of Nonterminals (Python: str instances),   *)
(* terminals are the other symbols (Python: enum members).  An extended    *)
(* symbol is the triple <<s0, sym, s1>>.  State k of the generator is      *)
(* itemsets[k + 1] since sequences start at 1.  Python iterates sets in    *)
(* an unspecified order: the operators that build a parser for the runtime *)
(* iterate in the order ToSeq fixes, the step-by-step build of BuildSpec   *)
(* takes every order.                                                      *)
(***************************************************************************)
EXTENDS Integers, Sequences, FiniteSets, TLC

VARIABLES
    sid,        \* which grammar/lexer setup is under test
    lines,      \* the iterable of lines handed to ReStream
    phase,      \* "init", "built", "parsing", "done"
    built,      \* what Grammar.build_parser produced (a parser or an error)
    stream,     \* the ReStream object
    frames,     \* the Python call stack of Parser.__call__ activations
    outcome,    \* how the outermost Parser.__call__ ended ("" while running)
    origin,     \* the function that raised the exception outcome names
    message,    \* what the ParseError raised says (NoMessage otherwise)
    result,     \* the value returned by the outermost Parser.__call__
    log,        \* history: every token returned by the lexer, with the caller
    shifted,    \* history: every token shifted, with the shifting parser
    returns,    \* history: cursor and channel at each auxiliary-parser return
    produced,   \* history: the tokens the lexer returned to a direct caller
    call,       \* the last call a direct caller made on the lexer or the stream
    textspans,  \* the TextSpan objects a direct caller constructed
    pass,       \* the class of the translation pass object
    open,       \* the nodes the traversal has entered and not yet left
    scopes,     \* ScopedPass.scopes
    helper,     \* the last call made on the ScopedPass
    rewrite,    \* a tree and what the ExplicitScopes transform made of it
    asm,        \* an instruction node and what AssembleWithRelocations made of it
    firstrun,   \* a grammar, an order of its rules and what build_firstsets returned
    build,      \* a grammar and how far the loops of build_parser have come on it
    flatten     \* the instructions of a fun and what the two assembler passes made of them

(* the variables of the parts of the library driven on their own *)
lexVars == <<produced, call>>
passVars == <<pass, open, scopes, helper>>
treeVars == <<rewrite, asm, firstrun, build, flatten>>
libVars == <<lexVars, textspans, passVars, treeVars>>

vars == <<sid, lines, phase, built, stream, frames, outcome, origin, message, result,
          log, shifted, returns, libVars>>

----------------------------------------------------------------------------
(* Bounds of the model. *)
MaxLen == 5
MaxSplitLen == 2
MaxInstr == 3
MaxLexLen == 3
MaxLines == 4
MaxCalls == 4
MaxCoord == 2
MaxDepth == 2
MaxOps == 4
MaxNodes == 5

(* Program constants. *)
UByteMax == 255
UShortMax == 65535
OpLda == 169
OpSta == 141
OpJmp == 76
OpRts == 96
NoPrec == -1
NoPointer == -1
NoState == -1
END == -2
CHANNEL_ALL == -1
CHANNEL_DEFAULT == 0
CHANNEL_HIDDEN == 1
NORMAL_MODE == 0
NoMatch == -1
NoneSym == "None"
EMPTY == "EMPTY"

Nonterminals == {"S", "E", "A", "B", "H", "Q"}

----------------------------------------------------------------------------
(* Generic helpers. *)

RECURSIVE ToSeq(_)
ToSeq(set) ==
    IF set = {} THEN <<>>
    ELSE LET x == CHOOSE y \in set : TRUE IN <<x>> \o ToSeq(set \ {x})

Range(seq) == {seq[i] : i \in DOMAIN seq}

(* the sequences that list the elements of a set once each *)
RECURSIVE Orders(_)
Orders(set) ==
    IF set = {} THEN {<<>>}
    ELSE UNION {{<<x>> \o rest : rest \in Orders(set \ {x})} : x \in set}

Last(seq) == seq[Len(seq)]

(* the function f with every value worked out *)
Tabulated(f) == f @@ <<>>

Lookup(f, key, default) == IF key \in DOMAIN f THEN f[key] ELSE default

TupleLE(a, b) == a[1] < b[1] \/ (a[1] = b[1] /\ a[2] <= b[2])
TupleLT(a, b) == a[1] < b[1] \/ (a[1] = b[1] /\ a[2] < b[2])
TupleMin(set) == CHOOSE a \in set : \A b \in set : TupleLE(a, b)
TupleMax(set) == CHOOSE a \in set : \A b \in set : TupleLE(b, a)

----------------------------------------------------------------------------
(* TextSpan *)

span_start(s) == <<s.start_line, s.start_column>>
span_end(s) == <<s.end_line, s.end_column>>

(* a variant of TextSpan that keeps the endpoints as given *)
TextSpan_raw(sl, sc, el, ec) ==
    [start_line |-> sl, start_column |-> sc, end_line |-> el, end_column |-> ec]

TextSpan(sl, sc, el, ec) ==
    IF TupleLT(<<el, ec>>, <<sl, sc>>)
    THEN [start_line |-> el, start_column |-> ec, end_line |-> sl, end_column |-> sc]
    ELSE [start_line |-> sl, start_column |-> sc, end_line |-> el, end_column |-> ec]

(* a variant of TextSpan_cover that looks at the last span only *)
TextSpan_cover_last(spans) == spans[Len(spans)]

TextSpan_cover(spans) ==
    LET lo == TupleMin({span_start(s) : s \in Range(spans)})
        hi == TupleMax({span_end(s) : s \in Range(spans)})
    IN TextSpan(lo[1], lo[2], hi[1], hi[2])

TextSpan_contains(self, other) ==
    TupleLE(span_start(self), span_start(other)) /\ TupleLE(span_end(other), span_end(self))

Token(t, text, channel, span) ==
    [kind |-> "token", t |-> t, text |-> text, channel |-> channel, span |-> span]

----------------------------------------------------------------------------
(* Rule *)

Rule(lhs, rhs, prec, rassoc, mode) ==
    [lhs |-> lhs, rhs |-> rhs, prec |-> prec, rassoc |-> rassoc, mode |-> mode,
     pointer |-> NoPointer]

with_pointer(rule, pointer) == [rule EXCEPT !.pointer = pointer]

next_symbol(rule) ==
    IF rule.pointer = Len(rule.rhs) THEN NoneSym ELSE rule.rhs[rule.pointer + 1]

(* raise Exception(message) *)
RuleException(what) == [exception |-> "Exception", message |-> what]

(* lines 219-224 *)
advanced(rule) ==
    IF rule.pointer = NoPointer THEN RuleException("Rule has no pointer")
    ELSE IF rule.pointer = Len(rule.rhs) THEN RuleException("Rule cannot be advanced")
    ELSE with_pointer(rule, rule.pointer + 1)

parent(xrule) ==
    [xrule EXCEPT !.lhs = xrule.lhs[2],
                  !.rhs = [i \in DOMAIN xrule.rhs |-> xrule.rhs[i][2]]]

----------------------------------------------------------------------------
(* Grammar *)

Grammar(start_symbol, end_symbols, rules) ==
    [start_symbol |-> start_symbol, end_symbols |-> end_symbols, rules |-> rules]

is_terminal(t) == t \notin Nonterminals

is_terminal_x(x) == is_terminal(x[2])

find_rule_indices(grammar, symbols) ==
    {k \in DOMAIN grammar.rules : grammar.rules[k].lhs \in symbols}

(* "ok" and the index, or the exception find_starting_rule_index raises *)
find_starting_rule_index(grammar) ==
    LET starts == find_rule_indices(grammar, {grammar.start_symbol}) IN
    IF Cardinality(starts) = 0 THEN [ok |-> FALSE, error |-> "No starting rule found", index |-> 0]
    ELSE IF Cardinality(starts) > 1 THEN [ok |-> FALSE, error |-> "Multiple starting rules found", index |-> 0]
    ELSE LET k == CHOOSE s \in starts : TRUE IN
         IF Len(grammar.rules[k].rhs) # 1
         THEN [ok |-> FALSE, error |-> "Starting rule must have one token", index |-> 0]
         ELSE [ok |-> TRUE, error |-> "", index |-> k]

----------------------------------------------------------------------------
(* ItemSet *)

(* a completion that stops after the first round *)
ItemSet_one_round(grammar, items) ==
    LET nexts == {next_symbol(r) : r \in {x \in items :
                      next_symbol(x) # NoneSym /\ ~is_terminal(next_symbol(x))}}
    IN items \cup {with_pointer(grammar.rules[k], 0) :
                      k \in find_rule_indices(grammar, nexts)}

RECURSIVE ItemSet(_, _)
ItemSet(grammar, items) ==
    LET nexts == {next_symbol(r) : r \in {x \in items :
                      next_symbol(x) # NoneSym /\ ~is_terminal(next_symbol(x))}}
        grown == items \cup {with_pointer(grammar.rules[k], 0) :
                                k \in find_rule_indices(grammar, nexts)}
    IN IF Cardinality(grown) = Cardinality(items) THEN grown
       ELSE ItemSet(grammar, grown)

(* lines 249-255: one round of the completion loop *)
ItemSet_round(grammar, items) ==
    LET nexts == {next_symbol(r) : r \in {x \in items :
                      next_symbol(x) # NoneSym /\ ~is_terminal(next_symbol(x))}}
    IN items \cup {with_pointer(grammar.rules[k], 0) :
                      k \in find_rule_indices(grammar, nexts)}

(* lines 256-257: the round added nothing *)
ItemSet_stable(old, new) == Cardinality(new) = Cardinality(old)

next_symbols(itemset) ==
    {next_symbol(r) : r \in {x \in itemset : next_symbol(x) # NoneSym}}

(* an advance that moves every dot, whatever symbol follows it *)
advance_every_item(itemset, symbol) ==
    {advanced(item) : item \in {x \in itemset : next_symbol(x) # NoneSym}}

advance(itemset, symbol) ==
    {advanced(item) : item \in {x \in itemset : next_symbol(x) = symbol}}

----------------------------------------------------------------------------
(* TranslationTable *)

(* index of the state with kernel key, or NoState *)
itemset_index_get(kernels, key) ==
    IF \E i \in DOMAIN kernels : kernels[i] = key
    THEN (CHOOSE i \in DOMAIN kernels : kernels[i] = key) - 1
    ELSE NoState

(* the body of "for symbol in self.itemsets[current].next_symbols" *)
RECURSIVE TT_symbols(_, _, _, _)
TT_symbols(grammar, tt, current, symbols) ==
    IF Len(symbols) = 0 THEN tt
    ELSE
      LET symbol == Head(symbols)
          key == advance(tt.itemsets[current + 1], symbol)
          found == itemset_index_get(tt.kernels, key)
          itemset == IF found # NoState THEN found ELSE Len(tt.itemsets)
          tt1 == IF found # NoState THEN tt
                 ELSE [tt EXCEPT !.kernels = Append(@, key),
                                 !.itemsets = Append(@, ItemSet(grammar, key))]
          tt2 == [tt1 EXCEPT !.translation_table = (<<current, symbol>> :> itemset) @@ @]
      IN TT_symbols(grammar, tt2, current, Tail(symbols))

(* the loop "while current < len(self.itemsets)" *)
RECURSIVE TT_loop(_, _, _)
TT_loop(grammar, tt, current) ==
    IF current >= Len(tt.itemsets) THEN tt
    ELSE TT_loop(grammar,
                 TT_symbols(grammar, tt, current,
                            ToSeq(next_symbols(tt.itemsets[current + 1]))),
                 current + 1)

TranslationTable(grammar) ==
    LET start == find_starting_rule_index(grammar).index
        startitem == with_pointer(grammar.rules[start], 0)
    IN TT_loop(grammar,
               [end_symbols |-> grammar.end_symbols,
                translation_table |-> <<>>,
                itemsets |-> <<ItemSet(grammar, {startitem})>>,
                kernels |-> <<{startitem}>>],
               0)

(* the rhs walk of build_extended_grammar: (prev, symbol, state) triples *)
RECURSIVE extended_rhs(_, _, _)
extended_rhs(table, state, rhs) ==
    IF Len(rhs) = 0 THEN <<>>
    ELSE LET next == table[<<state, Head(rhs)>>]
         IN <<<<state, Head(rhs), next>>>> \o extended_rhs(table, next, Tail(rhs))

extended_lhs(table, current, rule) ==
    <<current, rule.lhs, Lookup(table, <<current, rule.lhs>>, END)>>

extended_rules(tt) ==
    {[lhs |-> extended_lhs(tt.translation_table, current - 1, rule),
      rhs |-> extended_rhs(tt.translation_table, current - 1, rule.rhs),
      prec |-> rule.prec, rassoc |-> rule.rassoc, mode |-> rule.mode,
      pointer |-> NoPointer] :
        <<current, rule>> \in
            {cr \in (DOMAIN tt.itemsets) \X UNION Range(tt.itemsets) :
                cr[2] \in tt.itemsets[cr[1]] /\ cr[2].pointer = 0}}

(* the lhs for which the table lookup raised KeyError: the start symbols *)
extended_starts(tt) == {r.lhs : r \in {x \in extended_rules(tt) : x.lhs[3] = END}}

build_extended_grammar(tt) ==
    Grammar(CHOOSE s \in extended_starts(tt) : TRUE,
            {<<NoState, s, NoState>> : s \in tt.end_symbols},
            extended_rules(tt))

(* a variant of partial_modes that looks at every item of the set *)
partial_modes_all(itemset) == {r.mode : r \in itemset}

(* the modes of the partially-applied items of an item set *)
partial_modes(itemset) == {r.mode : r \in {x \in itemset : x.pointer > 0}}

build_modes_ok(tt) ==
    \A k \in DOMAIN tt.itemsets : Cardinality(partial_modes(tt.itemsets[k])) <= 1

build_modes(tt) ==
    [k \in DOMAIN tt.itemsets |->
        LET ms == partial_modes(tt.itemsets[k])
        IN IF Cardinality(ms) = 0 THEN NORMAL_MODE ELSE CHOOSE m \in ms : TRUE]

----------------------------------------------------------------------------
(* FIRST and FOLLOW over the extended grammar (rules is a set there) *)

symbols(grammar) ==
    {r.lhs : r \in grammar.rules} \cup UNION {Range(r.rhs) : r \in grammar.rules}

(* lines 376-383: the walk over rule.rhs, from position i *)
RECURSIVE first_rule(_, _, _)
first_rule(firstsets, rule, i) ==
    IF i > Len(rule.rhs) THEN [firstsets EXCEPT ![rule.lhs] = @ \cup {EMPTY}]
    ELSE LET symbol == rule.rhs[i] IN
         IF EMPTY \notin firstsets[symbol]
         THEN [firstsets EXCEPT ![rule.lhs] = @ \cup firstsets[symbol]]
         ELSE first_rule([firstsets EXCEPT ![rule.lhs] = @ \cup (firstsets[symbol] \ {EMPTY})],
                         rule, i + 1)

(* one "for rule in nzrules" pass *)
RECURSIVE first_pass(_, _)
first_pass(firstsets, nzrules) ==
    IF Len(nzrules) = 0 THEN firstsets
    ELSE first_pass(first_rule(firstsets, Head(nzrules), 1), Tail(nzrules))

(* a "while updated" loop that ends after its first pass *)
first_loop_single_pass(firstsets, nzrules) == first_pass(firstsets, nzrules)

(* "while updated": a pass in which no set grew ends the loop *)
RECURSIVE first_loop(_, _)
first_loop(firstsets, nzrules) ==
    LET next == first_pass(firstsets, nzrules) IN
    IF next = firstsets THEN next ELSE first_loop(next, nzrules)

(* a variant of first_updated that never lets the loop end *)
first_updated_always(old, new) == TRUE

(* lines 375-385: some set grew during the pass *)
first_updated(old, new) ==
    \E sym \in DOMAIN old : Cardinality(new[sym]) > Cardinality(old[sym])

(* lines 339-358: the pre-populated sets after rules 1 and 2 *)
first_rules12(grammar) ==
    LET init == [sym \in symbols(grammar) |->
                    IF is_terminal_x(sym) THEN {sym[2]} ELSE {}]
    IN [sym \in symbols(grammar) |->
            init[sym]
            \cup (IF \E r \in grammar.rules : r.lhs = sym /\ Len(r.rhs) = 0
                  THEN {EMPTY} ELSE {})
            \cup UNION {init[r.rhs[1]] : r \in {x \in grammar.rules :
                          x.lhs = sym /\ Len(x.rhs) > 0 /\ is_terminal_x(x.rhs[1])}}]

(* lines 356-358: the rules cached for rule 3 *)
first_nzrules(grammar) ==
    {r \in grammar.rules : Len(r.rhs) > 0 /\ ~is_terminal_x(r.rhs[1])}

(* build_firstsets with the rules of the grammar iterated in a given order *)
build_firstsets_in(grammar, nzrules) ==
    first_loop(first_rules12(grammar), nzrules)

build_firstsets(grammar) ==
    build_firstsets_in(grammar, ToSeq(first_nzrules(grammar)))

(* lines 414-418: Follow(D) gets First(b) for each R -> a D b *)
follow_adjacent(grammar, firstsets, sym) ==
    UNION UNION {{firstsets[r.rhs[k + 1]] :
                    k \in {j \in 1 .. (Len(r.rhs) - 1) : r.rhs[j] = sym}} :
                 r \in grammar.rules}

(* lines 429-440: one pass of Follow(last) gets Follow(lhs) *)
RECURSIVE follow_pass(_, _)
follow_pass(followsets, rules) ==
    IF Len(rules) = 0 THEN followsets
    ELSE LET rule == Head(rules) IN
         IF Len(rule.rhs) = 0 \/ is_terminal(Last(rule.rhs)[2])
         THEN follow_pass(followsets, Tail(rules))
         ELSE follow_pass([followsets EXCEPT ![Last(rule.rhs)] = @ \cup followsets[rule.lhs]],
                          Tail(rules))

RECURSIVE follow_loop(_, _)
follow_loop(followsets, rules) ==
    LET next == follow_pass(followsets, rules) IN
    IF next = followsets THEN next ELSE follow_loop(next, rules)

(* lines 434-438: some set grew during the pass *)
follow_updated(old, new) ==
    \E sym \in DOMAIN old : Cardinality(new[sym]) > Cardinality(old[sym])

(* lines 403-419: the pre-populated sets and the First sets of neighbours *)
follow_init(grammar, firstsets) ==
    [sym \in symbols(grammar) |->
        (IF sym = grammar.start_symbol
         THEN {s[2] : s \in grammar.end_symbols} ELSE {})
        \cup (IF is_terminal_x(sym) THEN {}
              ELSE follow_adjacent(grammar, firstsets, sym))]

build_followsets(grammar) ==
    follow_loop(follow_init(grammar, build_firstsets(grammar)), ToSeq(grammar.rules))

----------------------------------------------------------------------------
(* Grammar.build_parser *)

Shift(t) == [action |-> "shift", sym |-> NoneSym, arg |-> t]
Goto(t) == [action |-> "goto", sym |-> NoneSym, arg |-> t]
Accept == [action |-> "accept", sym |-> NoneSym, arg |-> NoState]
(* a variant of Reduce that counts one symbol too few *)
Reduce_short(lhs, n) == [action |-> "reduce", sym |-> lhs, arg |-> IF n > 0 THEN n - 1 ELSE 0]

Reduce(lhs, n) == [action |-> "reduce", sym |-> lhs, arg |-> n]

(* lines 467-471: shifts and gotos copied from the translation table *)
initial_agtable(tt) ==
    [key \in DOMAIN tt.translation_table |->
        IF is_terminal(key[2]) THEN Shift(tt.translation_table[key])
        ELSE Goto(tt.translation_table[key])]

(* lines 478-483: the state in which an extended rule is reduced *)
final_of(xrule) ==
    IF Len(xrule.rhs) = 0 THEN xrule.lhs[1] ELSE Last(xrule.rhs)[3]

(* the parents of the extended rules that end in state k *)
final_parents(xg, k) == {parent(r) : r \in {x \in xg.rules : final_of(x) = k}}

(* a variant of reduce_reduce_ok that lets every state through *)
reduce_reduce_unchecked(xg, tt) == TRUE

(* line 485: the reduce/reduce assertion holds for every state *)
reduce_reduce_ok(xg, tt) ==
    \A k \in 0 .. (Len(tt.itemsets) - 1) : Cardinality(final_parents(xg, k)) <= 1

finalset_rule(xg, k) == CHOOSE r \in final_parents(xg, k) : TRUE

finalset_followset(xg, followsets, k) ==
    UNION {followsets[r.lhs] : r \in {x \in xg.rules : final_of(x) = k}}

(* a variant of shift_partials that takes one item and drops the others *)
shift_partials_first(tt, shift_index) ==
    {CHOOSE i \in tt.itemsets[shift_index + 1] : i.pointer > 0}

(* lines 503-507: the partially-applied items of the shift's target state *)
shift_partials(tt, shift_index) ==
    {i \in tt.itemsets[shift_index + 1] : i.pointer > 0}

(* a variant of precedences_present that lets every conflict through *)
precedences_unchecked(shift_rule, reduce_rule) == TRUE

(* lines 513-514: both rules of a shift/reduce conflict carry a precedence *)
precedences_present(shift_rule, reduce_rule) ==
    shift_rule.prec # NoPrec /\ reduce_rule.prec # NoPrec

(* a variant of keep_shift that breaks every tie in favour of the shift *)
keep_shift_on_ties(shift_rule, reduce_rule) ==
    shift_rule.prec >= reduce_rule.prec

(* lines 523-525: the conflict is resolved in favour of the shift *)
keep_shift(shift_rule, reduce_rule) ==
    shift_rule.prec > reduce_rule.prec
    \/ (shift_rule.rassoc /\ shift_rule.prec = reduce_rule.prec)

(* a variant of is_accept that forgets whose rule is reduced *)
is_accept_any_rule(grammar, reduce_rule, symbol) ==
    symbol \in grammar.end_symbols

(* lines 529-530: the reduce is the accept *)
is_accept(grammar, reduce_rule, symbol) ==
    reduce_rule.lhs = grammar.start_symbol /\ symbol \in grammar.end_symbols

(* the keys the loop of lines 493-494 visits *)
reduce_keys(xg, tt, followsets) ==
    {ks \in (0 .. (Len(tt.itemsets) - 1)) \X (UNION Range(followsets)) :
        ks[2] \in finalset_followset(xg, followsets, ks[1])}

(* the assertion the body of the loop fails at key (k, symbol), or "" *)
conflict_error(tt, xg, agtable, k, symbol) ==
    IF <<k, symbol>> \notin DOMAIN agtable THEN ""
    ELSE LET partials == shift_partials(tt, agtable[<<k, symbol>>].arg) IN
         IF Cardinality(partials) # 1 THEN "shift/reduce (GENERATOR BUG)"
         ELSE IF ~precedences_present(CHOOSE i \in partials : TRUE, finalset_rule(xg, k))
              THEN "shift/reduce"
              ELSE ""

(* the entry the body of the loop leaves at key (k, symbol) *)
resolved_entry(grammar, tt, xg, agtable, k, symbol) ==
    IF <<k, symbol>> \in DOMAIN agtable
       /\ keep_shift(CHOOSE i \in shift_partials(tt, agtable[<<k, symbol>>].arg) : TRUE,
                     finalset_rule(xg, k))
    THEN agtable[<<k, symbol>>]
    ELSE IF is_accept(grammar, finalset_rule(xg, k), symbol) THEN Accept
         ELSE Reduce(finalset_rule(xg, k).lhs, Len(finalset_rule(xg, k).rhs))

Failed(error) == [ok |-> FALSE, error |-> error, parser |-> <<>>]

(* lines 577-587: the orders in which the states can be numbered.  The
   symbols after the dots are a set, and a run iterates it in an order of
   its own; kernels lists the states met so far, by their kernels. *)
RECURSIVE state_orders(_, _, _)
state_orders(grammar, kernels, current) ==
    IF current > Len(kernels) THEN {kernels}
    ELSE LET itemset == ItemSet(grammar, kernels[current])
             new == {advance(itemset, symbol) : symbol \in next_symbols(itemset)}
                        \ Range(kernels)
         IN UNION {state_orders(grammar, kernels \o order, current + 1) :
                      order \in Orders(new)}

(* lines 493-515: the assertions the loops can reach first.  The states are
   visited in the order of their numbers and the symbols of a state's follow
   set in the order the set is iterated in, so the first failure is any
   failure of the state that some numbering puts before the other states
   with one. *)
first_conflict_errors(grammar, tt, xg, agtable, keys) ==
    LET bad == {ks \in keys : conflict_error(tt, xg, agtable, ks[1], ks[2]) # ""}
        kinds == {conflict_error(tt, xg, agtable, ks[1], ks[2]) : ks \in bad}
        failing == {tt.kernels[ks[1] + 1] : ks \in bad}
        first_failing(order) ==
            order[CHOOSE p \in DOMAIN order :
                     /\ order[p] \in failing
                     /\ \A q \in 1 .. (p - 1) : order[q] \notin failing]
        firsts == {first_failing(order) :
                      order \in state_orders(grammar, <<tt.kernels[1]>>, 1)}
    IN IF Cardinality(kinds) <= 1 THEN kinds
       ELSE {conflict_error(tt, xg, agtable, ks[1], ks[2]) :
                ks \in {b \in bad : tt.kernels[b[1] + 1] \in firsts}}

Parser(agtable, modes, hidden, channel) ==
    [agtable |-> agtable, modes |-> modes, hidden |-> hidden, channel |-> channel]

(* the table and mode part of build_parser, lines 451-536 *)
build_tables(grammar) ==
    IF ~find_starting_rule_index(grammar).ok
    THEN {Failed(find_starting_rule_index(grammar).error)}
    ELSE
    LET tt == TranslationTable(grammar) IN
    IF extended_starts(tt) = {} THEN {Failed("UnboundLocalError")}
    ELSE IF ~build_modes_ok(tt) THEN {Failed("mode/mode conflict")}
    ELSE
    LET xg == build_extended_grammar(tt)
        followsets == build_followsets(xg)
        agtable == initial_agtable(tt)
    IN
    IF ~reduce_reduce_ok(xg, tt) THEN {Failed("reduce/reduce")}
    ELSE
    LET keys == reduce_keys(xg, tt, followsets)
        errors == first_conflict_errors(grammar, tt, xg, agtable, keys)
    IN
    IF errors # {} THEN {Failed(e) : e \in errors}
    ELSE {[ok |-> TRUE, error |-> "",
           parser |-> Parser(
              [key \in DOMAIN agtable \cup keys |->
                  IF key \in keys
                  THEN resolved_entry(grammar, tt, xg, agtable, key[1], key[2])
                  ELSE agtable[key]],
              build_modes(tt), <<>>, CHANNEL_DEFAULT)]}

(* build_parser(hidden, channel): the tables, then the hidden-channel parsers,
   each built with no hidden map of its own (lines 539-544) *)
build_parser(grammar, hidden, channel) ==
    LET mains == build_tables(grammar)
        auxes == [c \in DOMAIN hidden |-> build_tables(hidden[c])]
        failing == {c \in DOMAIN hidden : \E a \in auxes[c] : ~a.ok}
    IN IF \E main \in mains : ~main.ok THEN mains
       ELSE IF failing # {}
            THEN UNION {auxes[c] : c \in failing}
       ELSE {[main EXCEPT !.parser.channel = channel,
                          !.parser.hidden =
                             [c \in DOMAIN hidden |->
                                [(CHOOSE a \in auxes[c] : TRUE).parser
                                    EXCEPT !.channel = c]]] :
                main \in mains}

----------------------------------------------------------------------------
(* ReStream.  The field stream is the line iterator: the lines not yet read. *)

(* next(self.stream) and the else branch; ok is FALSE for StopIteration *)
advance_line(self) ==
    IF Len(self.stream) = 0 THEN [ok |-> FALSE, stream |-> self]
    ELSE [ok |-> TRUE,
          stream |-> [self EXCEPT !.current = Head(self.stream),
                                  !.stream = Tail(self.stream),
                                  !.line = @ + 1,
                                  !.column = 0]]

ReStream(input) ==
    LET self == [stream |-> input, current |-> <<>>, line |-> 0, column |-> 0]
    IN IF advance_line(self).ok THEN advance_line(self).stream
       ELSE [self EXCEPT !.current = <<>>, !.line = 1]

assure_line(self) ==
    IF self.column = Len(self.current) THEN advance_line(self)
    ELSE [ok |-> TRUE, stream |-> self]

(* a variant of regex_match in which every class matches every character *)
regex_match_any(regex, current, column) ==
    IF column < Len(current) THEN column + 1 ELSE NoMatch

(* regex.match(current, column) for a one-character class: the end of the
   match, or NoMatch *)
regex_match(regex, current, column) ==
    IF column < Len(current) /\ current[column + 1] \in regex THEN column + 1
    ELSE NoMatch

(* ReStream.match: ok is FALSE when assure_line raised StopIteration *)
match(self, regex) ==
    LET a == assure_line(self) IN
    [ok |-> a.ok, stream |-> a.stream,
     end |-> IF a.ok THEN regex_match(regex, a.stream.current, a.stream.column)
             ELSE NoMatch]

produce(self, symbol, end, channel) ==
    [token |-> Token(symbol, SubSeq(self.current, self.column + 1, end), channel,
                     TextSpan(self.line, self.column, self.line, end)),
     stream |-> [self EXCEPT !.column = end]]

(* a variant of rewind without the assertion *)
rewind_unchecked(self, token) ==
    [ok |-> TRUE, stream |-> [self EXCEPT !.column = token.span.start_column]]

(* ok is FALSE when the assertion of line 153 fails *)
rewind(self, token) ==
    [ok |-> span_end(token.span) = <<self.line, self.column>>,
     stream |-> [self EXCEPT !.column = token.span.start_column]]

produce_eof(self, symbol) ==
    Token(symbol, <<>>, CHANNEL_ALL,
          TextSpan(self.line, self.column, self.line, self.column))

----------------------------------------------------------------------------
(* Lexer.  rules is a sequence of <<mode, pattern, token type, channel>>. *)

Lexer(eof, rules) ==
    [eof |-> eof,
     mode_rules |-> [mode \in {r[1] : r \in Range(rules)} |->
                        SelectSeq(rules, LAMBDA r : r[1] = mode)]]

(* lines 191-195: the rules of the mode, tried in order from rule i *)
RECURSIVE lexer_rules(_, _, _)
lexer_rules(rules, stream_, i) ==
    IF i > Len(rules)
    THEN [kind |-> "AssertionError", token |-> <<>>, stream |-> stream_]
    ELSE LET m == match(stream_, rules[i][2]) IN
         IF ~m.ok THEN [kind |-> "StopIteration", token |-> <<>>, stream |-> m.stream]
         ELSE IF m.end # NoMatch
              THEN LET p == produce(m.stream, rules[i][3], m.end, rules[i][4])
                   IN [kind |-> "token", token |-> p.token, stream |-> p.stream]
              ELSE lexer_rules(rules, m.stream, i + 1)

Lexer_call(lexer, stream_, mode) ==
    LET a == assure_line(stream_) IN
    IF ~a.ok
    THEN [kind |-> "token", token |-> produce_eof(stream_, lexer.eof), stream |-> stream_]
    ELSE IF mode \notin DOMAIN lexer.mode_rules
         THEN [kind |-> "KeyError", token |-> <<>>, stream |-> a.stream]
         ELSE lexer_rules(lexer.mode_rules[mode], a.stream, 1)

----------------------------------------------------------------------------
(* The grammars, lexers and inputs under test. *)

TheRules ==
    << <<NORMAL_MODE, {"n"}, "N", CHANNEL_DEFAULT>>,
       <<NORMAL_MODE, {"+"}, "PLUS", CHANNEL_DEFAULT>>,
       <<NORMAL_MODE, {"*"}, "STAR", CHANNEL_DEFAULT>>,
       <<NORMAL_MODE, {"#"}, "CM", CHANNEL_HIDDEN>> >>

TheLexer == Lexer("EOF", TheRules)

(* a lexer with two modes: in mode 0 the third rule overlaps the first two,
   in mode 1 the first rule overlaps the second and nothing matches "*" *)
ModeRules ==
    << <<NORMAL_MODE, {"n"}, "N", CHANNEL_DEFAULT>>,
       <<NORMAL_MODE, {"+"}, "PLUS", CHANNEL_DEFAULT>>,
       <<NORMAL_MODE, {"n", "+", "*"}, "STAR", CHANNEL_DEFAULT>>,
       <<1, {"n", "+"}, "STAR", CHANNEL_DEFAULT>>,
       <<1, {"n"}, "N", CHANNEL_DEFAULT>> >>

ModeLexer == Lexer("EOF", ModeRules)

(* S -> E; E -> E + n | n, with + at precedence 10 *)
GSum(rassoc) ==
    Grammar("S", {"EOF"},
            << Rule("S", <<"E">>, NoPrec, FALSE, NORMAL_MODE),
               Rule("E", <<"E", "PLUS", "N">>, 10, rassoc, NORMAL_MODE),
               Rule("E", <<"N">>, NoPrec, FALSE, NORMAL_MODE) >>)

(* S -> E; E -> E + E | E * E | n: ambiguous, resolved by precedence *)
GAmb(prec, rassoc) ==
    Grammar("S", {"EOF"},
            << Rule("S", <<"E">>, NoPrec, FALSE, NORMAL_MODE),
               Rule("E", <<"E", "PLUS", "E">>, prec, rassoc, NORMAL_MODE),
               Rule("E", <<"E", "STAR", "E">>, 2, FALSE, NORMAL_MODE),
               Rule("E", <<"N">>, NoPrec, FALSE, NORMAL_MODE) >>)

(* S -> E; E -> n A; A -> (empty) *)
GEps ==
    Grammar("S", {"EOF"},
            << Rule("S", <<"E">>, NoPrec, FALSE, NORMAL_MODE),
               Rule("E", <<"N", "A">>, NoPrec, FALSE, NORMAL_MODE),
               Rule("A", <<>>, NoPrec, FALSE, NORMAL_MODE) >>)

(* S -> n: the start rule's only symbol is a terminal *)
GTok ==
    Grammar("S", {"EOF"}, << Rule("S", <<"N">>, NoPrec, FALSE, NORMAL_MODE) >>)

(* S -> E; E -> A | B; A -> n; B -> n: a reduce/reduce conflict *)
GRR ==
    Grammar("S", {"EOF"},
            << Rule("S", <<"E">>, NoPrec, FALSE, NORMAL_MODE),
               Rule("E", <<"A">>, NoPrec, FALSE, NORMAL_MODE),
               Rule("E", <<"B">>, NoPrec, FALSE, NORMAL_MODE),
               Rule("A", <<"N">>, NoPrec, FALSE, NORMAL_MODE),
               Rule("B", <<"N">>, NoPrec, FALSE, NORMAL_MODE) >>)

(* S -> E; E -> A E | n; A -> (empty): the conflict between shifting n and
   reducing A is resolved by precedence in favour of the reduce *)
GLoop ==
    Grammar("S", {"EOF"},
            << Rule("S", <<"E">>, NoPrec, FALSE, NORMAL_MODE),
               Rule("E", <<"A", "E">>, 1, FALSE, NORMAL_MODE),
               Rule("E", <<"N">>, 1, FALSE, NORMAL_MODE),
               Rule("A", <<>>, 2, FALSE, NORMAL_MODE) >>)

(* S -> E; E -> E + E | E + * n | n, all at precedence 1: shifting + leads
   to a state with two partially-applied items *)
GPartials ==
    Grammar("S", {"EOF"},
            << Rule("S", <<"E">>, NoPrec, FALSE, NORMAL_MODE),
               Rule("E", <<"E", "PLUS", "E">>, 1, FALSE, NORMAL_MODE),
               Rule("E", <<"E", "PLUS", "STAR", "N">>, 1, FALSE, NORMAL_MODE),
               Rule("E", <<"N">>, 1, FALSE, NORMAL_MODE) >>)

(* S -> E; E -> E + E | E + * n | E * E | n, none with a precedence: one
   conflict meets a state with two partially-applied items, another a rule
   without precedence *)
GBoth ==
    Grammar("S", {"EOF"},
            << Rule("S", <<"E">>, NoPrec, FALSE, NORMAL_MODE),
               Rule("E", <<"E", "PLUS", "E">>, NoPrec, FALSE, NORMAL_MODE),
               Rule("E", <<"E", "PLUS", "STAR", "N">>, NoPrec, FALSE, NORMAL_MODE),
               Rule("E", <<"E", "STAR", "E">>, NoPrec, FALSE, NORMAL_MODE),
               Rule("E", <<"N">>, NoPrec, FALSE, NORMAL_MODE) >>)

(* S -> E; E -> n Q; Q -> + * in mode 1: the token after + is read in
   mode 1 *)
GMode ==
    Grammar("S", {"EOF"},
            << Rule("S", <<"E">>, NoPrec, FALSE, NORMAL_MODE),
               Rule("E", <<"N", "Q">>, NoPrec, FALSE, NORMAL_MODE),
               Rule("Q", <<"PLUS", "STAR">>, NoPrec, FALSE, 1) >>)

(* S -> E; E -> n + | n * in mode 1: after n two modes are in progress *)
GModeClash ==
    Grammar("S", {"EOF"},
            << Rule("S", <<"E">>, NoPrec, FALSE, NORMAL_MODE),
               Rule("E", <<"N", "PLUS">>, NoPrec, FALSE, NORMAL_MODE),
               Rule("E", <<"N", "STAR">>, NoPrec, FALSE, 1) >>)

(* S -> E; E -> + S * | n: the start symbol on a right-hand side, with +
   and * as the opening and the closing bracket *)
GNested ==
    Grammar("S", {"EOF"},
            << Rule("S", <<"E">>, NoPrec, FALSE, NORMAL_MODE),
               Rule("E", <<"PLUS", "S", "STAR">>, NoPrec, FALSE, NORMAL_MODE),
               Rule("E", <<"N">>, NoPrec, FALSE, NORMAL_MODE) >>)

(* the comment grammar of the hidden channel: H -> comment *)
GComment ==
    Grammar("H", {"EOF"}, << Rule("H", <<"CM">>, NoPrec, FALSE, NORMAL_MODE) >>)

NoHidden == <<>>
CommentHidden == (CHANNEL_HIDDEN :> GComment)

Setup(name, grammar, hidden, alphabet) ==
    [name |-> name, grammar |-> grammar, hidden |-> hidden, lexer |-> TheLexer,
     alphabet |-> alphabet]

SetupWith(name, grammar, hidden, lexer, alphabet) ==
    [name |-> name, grammar |-> grammar, hidden |-> hidden, lexer |-> lexer,
     alphabet |-> alphabet]

Setups ==
    << Setup("left", GSum(FALSE), NoHidden, {"n", "+"}),
       Setup("right", GSum(TRUE), NoHidden, {"n", "+"}),
       Setup("comments", GSum(FALSE), CommentHidden, {"n", "+", "#"}),
       Setup("empty", GEps, CommentHidden, {"n", "#"}),
       Setup("token", GTok, NoHidden, {"n"}),
       Setup("rr", GRR, NoHidden, {"n"}),
       Setup("amb0", GAmb(NoPrec, FALSE), NoHidden, {"n"}),
       Setup("amb1l", GAmb(1, FALSE), NoHidden, {"n", "+", "*"}),
       Setup("amb1r", GAmb(1, TRUE), NoHidden, {"n", "+", "*"}),
       Setup("amb2l", GAmb(2, FALSE), NoHidden, {"n", "+", "*"}),
       Setup("amb2r", GAmb(2, TRUE), NoHidden, {"n", "+", "*"}),
       Setup("amb3l", GAmb(3, FALSE), NoHidden, {"n", "+", "*"}),
       Setup("amb3r", GAmb(3, TRUE), NoHidden, {"n", "+", "*"}),
       Setup("partials", GPartials, NoHidden, {"n"}),
       SetupWith("modes", GMode, NoHidden, ModeLexer, {"n", "+", "*"}),
       SetupWith("modeclash", GModeClash, NoHidden, ModeLexer, {"n"}),
       Setup("both", GBoth, NoHidden, {"n"}),
       Setup("nested", GNested, NoHidden, {"n", "+", "*"}) >>

SetupId(name) == CHOOSE i \in DOMAIN Setups : Setups[i].name = name

(* what build_parser can end in, worked out once per setup *)
BuiltParsers ==
    Tabulated([i \in DOMAIN Setups |->
        build_parser(Setups[i].grammar, Setups[i].hidden, CHANNEL_DEFAULT)])

Strings(alphabet, n) == UNION {[1 .. k -> alphabet] : k \in 0 .. n}

(* no line at all, one line of up to MaxLen characters, or two lines of up to
   MaxSplitLen characters together *)
Inputs(alphabet) ==
    {<<>>}
    \cup {<<s>> : s \in Strings(alphabet, MaxLen)}
    \cup {<<SubSeq(s, 1, k), SubSeq(s, k + 1, Len(s))>> :
            <<s, k>> \in {sk \in Strings(alphabet, MaxSplitLen) \X (0 .. MaxSplitLen) :
                            sk[2] <= Len(sk[1])}}

----------------------------------------------------------------------------
(* Parser: one record of frames per activation of Parser.__call__.  path is
   the chain of channels leading from the main parser to the frame's parser;
   pc is "fetch" inside next_token_skip_hidden and "dispatch" at line 709. *)

RECURSIVE parser_at(_, _)
parser_at(parser, path) ==
    IF Len(path) = 0 THEN parser
    ELSE parser_at(parser.hidden[Head(path)], Tail(path))

NoToken == Token(NoneSym, <<>>, CHANNEL_ALL, TextSpan(0, 0, 0, 0))
NoneNode == [kind |-> "None"]
NoEntry == [action |-> "none", sym |-> NoneSym, arg |-> NoState]
NoMessage == [got |-> NoToken, expected |-> {}]

(* no call made yet by a direct caller of the lexer *)
NoCall == [op |-> "none", n |-> 0, mode |-> NORMAL_MODE, before |-> ReStream(<<>>),
           kind |-> "", token |-> NoToken]

(* no TextSpan constructed yet by a direct caller *)
NoSpans == [args |-> <<0, 0, 0, 0>>, given |-> <<>>, swapped |-> <<>>]

(* Python's None as the value of a name or a constant *)
None == "None"

(* no call made yet on a ScopedPass *)
NoNode == [t |-> "", attrs |-> <<>>]

(* no tree handed to a pattern transform yet *)
NoRewrite == [input |-> [t |-> "", children |-> <<>>], once |-> <<>>, twice |-> <<>>]

(* no instruction node handed to the assembler yet *)
NoStorage == [type |-> "NoneType"]
NoAsm == [opcode |-> "", storage |-> NoStorage, kind |-> "", data |-> <<>>]
NoFlatten == [body |-> <<>>, children |-> <<>>, visited |-> 0, pc |-> "idle",
              raised |-> "", text |-> <<>>]
NoBuild ==
    [grammar |-> 0, pc |-> "idle", tt |-> <<>>, current |-> 0, todo |-> <<>>,
     symbol |-> NoneSym, items |-> {}, xg |-> <<>>, firstsets |-> <<>>,
     followsets |-> <<>>, updated |-> FALSE, rules |-> <<>>]
NoFirstRun == [grammar |-> 0, order |-> <<>>, firstsets |-> <<>>, done |-> FALSE,
               followsets |-> <<>>, followed |-> FALSE]
NoHelper == [op |-> "none", n |-> 0, kind |-> "", name |-> "", value |-> None,
             before |-> <<>>, what |-> "none", returned |-> NoNode]

(* lines 702-703 *)
NewFrame(path) ==
    [path |-> path, set_stack |-> <<0>>, output |-> <<>>, lookahead |-> NoToken,
     pc |-> "fetch"]

(* the make_node the caller passes: the main parse builds a tree, an
   auxiliary parse is given "lambda t, s, c, m: None" (line 682) *)
make_node(path, sym, span, children, mode) ==
    IF Len(path) = 0
    THEN [kind |-> "node", sym |-> sym, span |-> span, children |-> children,
          mode |-> mode]
    ELSE NoneNode

(* a variant of PyDropSuffix that leaves one entry too many *)
PyDropSuffix_short(seq, n) == SubSeq(seq, 1, IF n > Len(seq) THEN 0 ELSE Len(seq) - n + 1)

(* Python's seq[-n:] and "del seq[-n:]" for n > 0 *)
PySuffix(seq, n) == SubSeq(seq, IF n >= Len(seq) THEN 1 ELSE Len(seq) - n + 1, Len(seq))
PyDropSuffix(seq, n) == SubSeq(seq, 1, IF n >= Len(seq) THEN 0 ELSE Len(seq) - n)

(* Python's seq[i] for an int i: IndexError unless -len(seq) <= i < len(seq) *)
PyIndexOk(seq, i) == -Len(seq) <= i /\ i < Len(seq)
PyIndex(seq, i) == IF i >= 0 THEN seq[i + 1] ELSE seq[Len(seq) + i + 1]

(* line 671-672: the token is for this parser *)
own_channel(parser, token) ==
    token.channel = parser.channel \/ token.channel = CHANNEL_ALL

(* a variant of empty_span that gives the empty span at the lookahead *)
empty_span_zero_width(output, lookahead) ==
    LET end == span_start(lookahead.span)
    IN TextSpan(end[1], end[2], end[1], end[2])

(* lines 739-744: the span of an empty reduction *)
empty_span(output, lookahead) ==
    LET end == span_start(lookahead.span)
        start == IF Len(output) > 0 THEN span_end(Last(output).span) ELSE end
    IN TextSpan(start[1], start[2], end[1], end[2])

(* lines 725-748: the stacks after Reduce(sym, arg), or the exception *)
reduce(parser, frame, sym, arg) ==
    IF arg > 0 /\ Len(frame.output) = 0 THEN [error |-> "ValueError", frame |-> frame]
    ELSE
    LET popped == IF arg > 0 THEN PySuffix(frame.output, arg) ELSE <<>>
        children == [i \in DOMAIN popped |-> popped[i].node]
        span == IF arg > 0
                THEN TextSpan_cover([i \in DOMAIN popped |-> popped[i].span])
                ELSE empty_span(frame.output, frame.lookahead)
        output == IF arg > 0 THEN PyDropSuffix(frame.output, arg) ELSE frame.output
        set_stack == IF arg > 0 THEN PyDropSuffix(frame.set_stack, arg) ELSE frame.set_stack
    IN
    IF Len(set_stack) = 0
    THEN [error |-> "IndexError",
          frame |-> [frame EXCEPT !.output = output, !.set_stack = set_stack]]
    ELSE IF <<Last(set_stack), sym>> \notin DOMAIN parser.agtable
    THEN [error |-> "KeyError",
          frame |-> [frame EXCEPT !.output = output, !.set_stack = set_stack]]
    ELSE
    LET entry == parser.agtable[<<Last(set_stack), sym>>]
        goto == entry.arg
    IN
    (* line 745 appends whatever the table holds; line 747 indexes
       self.modes with it before make_node is called *)
    IF entry.action # "goto"
    THEN [error |-> "TypeError",
          frame |-> [frame EXCEPT !.output = output,
                                  !.set_stack = Append(set_stack, entry)]]
    ELSE IF ~PyIndexOk(parser.modes, goto)
    THEN [error |-> "IndexError",
          frame |-> [frame EXCEPT !.output = output,
                                  !.set_stack = Append(set_stack, goto)]]
    ELSE
    [error |-> "",
     frame |-> [frame EXCEPT
        !.set_stack = Append(set_stack, goto),
        !.output = Append(output,
                     [node |-> make_node(frame.path, sym, span, children,
                                         PyIndex(parser.modes, goto)),
                      span |-> span])]]

(* a shift that keeps the state stack as it is *)
shift_output_only(frame, arg) ==
    [frame EXCEPT !.output = Append(@, [node |-> frame.lookahead,
                                        span |-> frame.lookahead.span]),
                  !.pc = "fetch"]

(* lines 720-721: the stacks after a shift *)
shift(frame, arg) ==
    [frame EXCEPT !.output = Append(@, [node |-> frame.lookahead,
                                        span |-> frame.lookahead.span]),
                  !.set_stack = Append(@, arg),
                  !.pc = "fetch"]

----------------------------------------------------------------------------
(* The state machine *)

Top == Last(frames)
TopParser == parser_at(built.parser, Top.path)
TopEntry == Lookup(TopParser.agtable, <<Last(Top.set_stack), Top.lookahead.t>>, NoEntry)
ReplaceTop(frame) == [frames EXCEPT ![Len(frames)] = frame]

Init ==
    /\ sid \in DOMAIN Setups
    /\ lines \in Inputs(Setups[sid].alphabet)
    /\ phase = "init"
    /\ built = Failed("not built")
    /\ stream = ReStream(<<>>)
    /\ frames = <<>>
    /\ outcome = ""
    /\ origin = ""
    /\ message = NoMessage
    /\ result = NoneNode
    /\ log = <<>>
    /\ shifted = <<>>
    /\ returns = <<>>
    /\ produced = <<>>
    /\ call = NoCall
    /\ textspans = NoSpans
    /\ pass = "none"
    /\ open = <<>>
    /\ scopes = <<>>
    /\ helper = NoHelper
    /\ rewrite = NoRewrite
    /\ asm = NoAsm
    /\ firstrun = NoFirstRun
    /\ build = NoBuild
    /\ flatten = NoFlatten

(* lines 711-715: the message of the ParseError: the lookahead, and the
   second component of every key of the table whose state is the top state
   (the order of the lines is the table's and is left out) *)
parse_error_message(parser, frame) ==
    [got |-> frame.lookahead,
     expected |-> {key[2] : key \in {k \in DOMAIN parser.agtable :
                                        k[1] = Last(frame.set_stack)}}]

(* an exception leaves Parser.__call__ and every caller above it *)
RaiseWith(kind, where, msg) ==
    /\ phase' = "done"
    /\ outcome' = kind
    /\ origin' = where
    /\ message' = msg
    /\ UNCHANGED result

Raise(kind, where) == RaiseWith(kind, where, NoMessage)

(* Grammar.build_parser(hidden) *)
BuildParser ==
    /\ phase = "init"
    /\ built' \in BuiltParsers[sid]
    /\ phase' = IF built'.ok THEN "built" ELSE "done"
    /\ outcome' = IF built'.ok THEN "" ELSE "GeneratorError"
    /\ origin' = IF built'.ok THEN "" ELSE "Grammar.build_parser"
    /\ UNCHANGED message
    /\ UNCHANGED <<sid, lines, stream, frames, result, log, shifted, returns>>
    /\ UNCHANGED libVars

(* ReStream(lines), and the entry of parser(stream, lexer, make_node) *)
StartParse ==
    /\ phase = "built"
    /\ stream' = ReStream(lines)
    /\ frames' = <<NewFrame(<<>>)>>
    /\ phase' = "parsing"
    /\ UNCHANGED <<sid, lines, built, outcome, origin, message, result, log, shifted, returns>>
    /\ UNCHANGED libVars

(* one round of the loop of next_token_skip_hidden, lines 669-682 *)
NextToken ==
    /\ phase = "parsing"
    /\ Top.pc = "fetch"
    /\ LET state == Last(Top.set_stack)
           lexed == Lexer_call(Setups[sid].lexer, stream, PyIndex(TopParser.modes, state))
           back == rewind(lexed.stream, lexed.token)
       IN
       (* line 670: self.modes[state] is evaluated before the lexer is called *)
       IF ~PyIndexOk(TopParser.modes, state)
       THEN /\ Raise("IndexError", "Parser.next_token_skip_hidden")
            /\ UNCHANGED <<stream, frames, log>>
       ELSE
       IF lexed.kind # "token"
       THEN /\ Raise(lexed.kind, "Lexer.__call__")
            /\ stream' = lexed.stream
            /\ UNCHANGED <<frames, log>>
       ELSE
       /\ log' = Append(log, [token |-> lexed.token, by |-> TopParser.channel])
       /\ IF own_channel(TopParser, lexed.token)
          THEN /\ stream' = lexed.stream
               /\ frames' = ReplaceTop([Top EXCEPT !.lookahead = lexed.token,
                                                   !.pc = "dispatch"])
               /\ UNCHANGED <<phase, outcome, origin, message, result>>
          ELSE IF ~back.ok
          THEN /\ Raise("AssertionError", "ReStream.rewind")
               /\ stream' = lexed.stream
               /\ UNCHANGED frames
          ELSE IF lexed.token.channel \notin DOMAIN TopParser.hidden
          THEN /\ Raise("KeyError", "Parser.next_token_skip_hidden")
               /\ stream' = back.stream
               /\ UNCHANGED frames
          ELSE /\ stream' = back.stream
               /\ frames' = Append(frames, NewFrame(Append(Top.path, lexed.token.channel)))
               /\ UNCHANGED <<phase, outcome, origin, message, result>>
    /\ UNCHANGED <<sid, lines, built, shifted, returns>>
    /\ UNCHANGED libVars

(* lines 710-715: no action for the lookahead *)
ParseErrorStep ==
    /\ phase = "parsing"
    /\ Top.pc = "dispatch"
    /\ TopEntry.action \notin {"accept", "shift", "reduce"}
    /\ IF TopEntry.action = "none"
       THEN RaiseWith("ParseError", "Parser.__call__", parse_error_message(TopParser, Top))
       ELSE Raise("TypeError", "Parser.__call__")
    /\ UNCHANGED <<sid, lines, built, stream, frames, log, shifted, returns>>
    /\ UNCHANGED libVars

(* lines 719-723, up to the call of next_token_skip_hidden *)
ShiftStep ==
    /\ phase = "parsing"
    /\ Top.pc = "dispatch"
    /\ TopEntry.action = "shift"
    /\ frames' = ReplaceTop(shift(Top, TopEntry.arg))
    /\ shifted' = Append(shifted, [token |-> Top.lookahead, by |-> TopParser.channel])
    /\ UNCHANGED <<sid, lines, phase, built, stream, outcome, origin, message, result, log, returns>>
    /\ UNCHANGED libVars

(* lines 724-748 *)
ReduceStep ==
    /\ phase = "parsing"
    /\ Top.pc = "dispatch"
    /\ TopEntry.action = "reduce"
    /\ LET r == reduce(TopParser, Top, TopEntry.sym, TopEntry.arg) IN
       /\ frames' = ReplaceTop(r.frame)
       /\ IF r.error # "" THEN Raise(r.error, "Parser.__call__")
          ELSE UNCHANGED <<phase, outcome, origin, message, result>>
    /\ UNCHANGED <<sid, lines, built, stream, log, shifted, returns>>
    /\ UNCHANGED libVars

(* lines 717-718 and 750-756; an auxiliary parser returns into the loop of
   its caller's next_token_skip_hidden, which drops the value *)
AcceptStep ==
    /\ phase = "parsing"
    /\ Top.pc = "dispatch"
    /\ TopEntry.action = "accept"
    /\ IF Len(Top.output) # 1
       THEN /\ Raise("AssertionError", "Parser.__call__")
            /\ UNCHANGED <<frames, returns>>
       ELSE IF Len(frames) = 1
       THEN /\ phase' = "done"
            /\ outcome' = "accept"
            /\ UNCHANGED <<origin, message>>
            /\ result' = Top.output[1].node
            /\ UNCHANGED <<frames, returns>>
       ELSE /\ frames' = SubSeq(frames, 1, Len(frames) - 1)
            /\ returns' = Append(returns, [channel |-> TopParser.channel,
                                           line |-> stream.line,
                                           column |-> stream.column,
                                           value |-> Top.output[1].node])
            /\ UNCHANGED <<phase, outcome, origin, message, result>>
    /\ UNCHANGED <<sid, lines, built, stream, log, shifted>>
    /\ UNCHANGED libVars

Next ==
    \/ BuildParser
    \/ StartParse
    \/ NextToken
    \/ ParseErrorStep
    \/ ShiftStep
    \/ ReduceStep
    \/ AcceptStep

Spec == Init /\ [][Next]_vars

----------------------------------------------------------------------------
(* The lexer and the stream driven by a direct caller: any sequence of
   lexer(stream, mode) and stream.rewind(token) calls, in any mode and with
   any token the lexer returned before.  An exception ends the call, not the
   stream object, which the caller can go on using. *)

LexSetups == {i \in DOMAIN Setups : Setups[i].name \in {"comments", "modes"}}
LexModes == {NORMAL_MODE, 1, 2}

(* the lines a text falls into when it is cut after the characters cuts
   names; two equal cuts leave an empty line between them *)
SplitAt(s, cuts) ==
    [i \in 1 .. (Len(cuts) + 1) |->
        SubSeq(s, (IF i = 1 THEN 0 ELSE cuts[i - 1]) + 1,
                  IF i = Len(cuts) + 1 THEN Len(s) ELSE cuts[i])]

Cuts(n, len) ==
    {cuts \in [1 .. n -> 0 .. len] : \A i \in 1 .. (n - 1) : cuts[i] <= cuts[i + 1]}

(* no line, one line of up to MaxLexLen characters, or two to MaxLines lines
   of up to MaxSplitLen characters together, empty lines among them *)
LexInputs(alphabet) ==
    {<<>>}
    \cup {<<s>> : s \in Strings(alphabet, MaxLexLen)}
    \cup UNION {{SplitAt(s, cuts) : cuts \in Cuts(k - 1, Len(s))} :
                  <<s, k>> \in Strings(alphabet, MaxSplitLen) \X (2 .. MaxLines)}

parserVars == <<phase, built, frames, outcome, origin, message, result, log,
                shifted, returns>>

LexInit ==
    /\ sid \in LexSetups
    /\ lines \in LexInputs(Setups[sid].alphabet)
    /\ stream = ReStream(lines)
    /\ produced = <<>>
    /\ call = NoCall
    /\ textspans = NoSpans
    /\ pass = "none"
    /\ open = <<>>
    /\ scopes = <<>>
    /\ helper = NoHelper
    /\ rewrite = NoRewrite
    /\ asm = NoAsm
    /\ firstrun = NoFirstRun
    /\ build = NoBuild
    /\ flatten = NoFlatten
    /\ phase = "library"
    /\ built = Failed("not built")
    /\ frames = <<>>
    /\ outcome = ""
    /\ origin = ""
    /\ message = NoMessage
    /\ result = NoneNode
    /\ log = <<>>
    /\ shifted = <<>>
    /\ returns = <<>>

(* token = lexer(stream, mode) *)
LexerCall ==
    /\ call.n < MaxCalls
    /\ \E mode \in LexModes :
          LET r == Lexer_call(Setups[sid].lexer, stream, mode) IN
          /\ stream' = r.stream
          /\ produced' = IF r.kind = "token"
                         THEN Append(produced, [token |-> r.token, mode |-> mode])
                         ELSE produced
          /\ call' = [op |-> "lex", n |-> call.n + 1, mode |-> mode, before |-> stream,
                      kind |-> r.kind,
                      token |-> IF r.kind = "token" THEN r.token ELSE NoToken]
    /\ UNCHANGED <<sid, lines, parserVars, textspans, passVars, treeVars>>

(* stream.rewind(token), with a token the lexer returned before *)
RewindCall ==
    /\ call.n < MaxCalls
    /\ \E i \in DOMAIN produced :
          LET r == rewind(stream, produced[i].token) IN
          /\ stream' = IF r.ok THEN r.stream ELSE stream
          /\ call' = [op |-> "rewind", n |-> call.n + 1, mode |-> produced[i].mode,
                      before |-> stream,
                      kind |-> IF r.ok THEN "ok" ELSE "AssertionError",
                      token |-> produced[i].token]
    /\ UNCHANGED <<sid, lines, produced, parserVars, textspans, passVars, treeVars>>

LexNext ==
    \/ LexerCall
    \/ RewindCall

LexSpec == LexInit /\ [][LexNext]_vars

----------------------------------------------------------------------------
(* TextSpan constructed by a direct caller: from four coordinates, once in
   the order given and once with the two corners exchanged. *)

Coords == 0 .. MaxCoord

idleVars == <<sid, lines, stream, parserVars, lexVars>>

IdleInit ==
    /\ sid = 1
    /\ lines = <<>>
    /\ stream = ReStream(<<>>)
    /\ produced = <<>>
    /\ call = NoCall
    /\ phase = "library"
    /\ built = Failed("not built")
    /\ frames = <<>>
    /\ outcome = ""
    /\ origin = ""
    /\ message = NoMessage
    /\ result = NoneNode
    /\ log = <<>>
    /\ shifted = <<>>
    /\ returns = <<>>

SpanInit ==
    /\ IdleInit
    /\ textspans \in {[args |-> args, given |-> <<>>, swapped |-> <<>>] :
                    args \in Coords \X Coords \X Coords \X Coords}
    /\ pass = "none"
    /\ open = <<>>
    /\ scopes = <<>>
    /\ helper = NoHelper
    /\ rewrite = NoRewrite
    /\ asm = NoAsm
    /\ firstrun = NoFirstRun
    /\ build = NoBuild
    /\ flatten = NoFlatten

(* TextSpan(a, b, c, d) *)
ConstructGiven ==
    /\ textspans.given = <<>>
    /\ LET a == textspans.args IN
       textspans' = [textspans EXCEPT !.given = <<TextSpan(a[1], a[2], a[3], a[4])>>]
    /\ UNCHANGED <<idleVars, passVars, treeVars>>

(* TextSpan(c, d, a, b) *)
ConstructSwapped ==
    /\ textspans.swapped = <<>>
    /\ LET a == textspans.args IN
       textspans' = [textspans EXCEPT !.swapped = <<TextSpan(a[3], a[4], a[1], a[2])>>]
    /\ UNCHANGED <<idleVars, passVars, treeVars>>

SpanNext ==
    \/ ConstructGiven
    \/ ConstructSwapped

SpanSpec == SpanInit /\ [][SpanNext]_vars

----------------------------------------------------------------------------
(* gold/passes/binding.py: ScopedPass, driven as the traversal of
   TranslationPass drives it (transform_enter on the way down, transform_exit
   on the way up, the node left being the innermost one entered) and as the
   passes derived from it call its helpers in between. *)

scoped_types == {"unit", "fun"}
NodeKinds == scoped_types \cup {"constant", "identifier"}
Names == {"x", "y"}
(* Python values, written as literals: an int that is false and a true one *)
Values == {"0", "u8"}
PassClasses == {"ScopedPass", "ResolveConstants"}
EmptyDict == <<>>

(* an AST node, as far as the scope helpers look at it: kind and attrs *)
AstNode(t, attrs) == [t |-> t, attrs |-> attrs]

(* the attrs a node entered may carry from an earlier pass *)
CarriedAttrs ==
    {EmptyDict, "known_names" :> ("x" :> "u8"), "known_constants" :> ("x" :> "0")}

(* the nodes handed to transform_enter *)
EnteredNodes ==
    {AstNode(t, attrs) : t \in scoped_types, attrs \in CarriedAttrs}
    \cup {AstNode("constant", EmptyDict)}
    \cup {AstNode("identifier", "name" :> name) : name \in Names}

(* node.get_attr_default(attr, default_value): the attribute, set to the
   default first if the node does not have it *)
get_attr_default(node, attr, default_value) ==
    IF attr \in DOMAIN node.attrs
    THEN [node |-> node, value |-> node.attrs[attr]]
    ELSE [node |-> [node EXCEPT !.attrs = (attr :> default_value) @@ node.attrs],
          value |-> default_value]

(* node.clone(): a node of the same kind with a copy of the attrs *)
clone(node) == AstNode(node.t, [a \in DOMAIN node.attrs |-> node.attrs[a]])

(* reversed(self.scopes), as the indices visited *)
reversed(seq) == [i \in 1 .. Len(seq) |-> Len(seq) + 1 - i]

(* the loop of look_up_name / look_up_constant over the scopes at the
   indices in order, from position k on *)
RECURSIVE look_up(_, _, _, _, _)
look_up(scs, order, k, attr, name) ==
    IF k > Len(order)
    THEN [scopes |-> scs, value |-> None]
    ELSE LET g == get_attr_default(scs[order[k]], attr, EmptyDict)
             visited == [scs EXCEPT ![order[k]] = g.node]
         IN IF name \in DOMAIN g.value
            THEN [scopes |-> visited, value |-> g.value[name]]
            ELSE look_up(visited, order, k + 1, attr, name)

(* the body of bind_name / bind_constant *)
bind(scs, attr, name, value) ==
    LET g == get_attr_default(scs[Len(scs)], attr, EmptyDict)
    IN [scs EXCEPT ![Len(scs)] =
            [g.node EXCEPT !.attrs = (attr :> ((name :> value) @@ g.value)) @@ g.node.attrs]]

(* a variant of bind_name that writes to the outermost scope *)
bind_name_outermost(scs, name, value) ==
    SubSeq(bind(SubSeq(scs, 1, 1), "known_names", name, value), 1, 1)
    \o SubSeq(scs, 2, Len(scs))

bind_name(scs, name, value) == bind(scs, "known_names", name, value)

(* a variant of look_up_name that walks the scopes in stack order *)
look_up_name_outermost(scs, name) ==
    look_up(scs, [i \in 1 .. Len(scs) |-> i], 1, "known_names", name)

look_up_name(scs, name) == look_up(scs, reversed(scs), 1, "known_names", name)

bind_constant(scs, name, value) == bind(scs, "known_constants", name, value)

look_up_constant(scs, name) == look_up(scs, reversed(scs), 1, "known_constants", name)

(* bool(value), for the values of the model *)
truth(value) == value \notin {None, "0"}

(* lines 72-76: ScopedPass.enter__scope and exit__scope *)
ScopedPass_exit__scope(node) == node

(* a variant of ResolveConstants.exit__scope that leaves the attrs alone *)
ResolveConstants_exit__scope_keep(node) == clone(node)

(* lines 191-195: ResolveConstants.exit__scope *)
ResolveConstants_exit__scope(node) ==
    LET copy == clone(node)
    IN IF "known_constants" \in DOMAIN copy.attrs
       THEN AstNode(copy.t, [a \in DOMAIN copy.attrs \ {"known_constants"} |-> copy.attrs[a]])
       ELSE copy

exit__scope(class, node) ==
    IF class = "ResolveConstants"
    THEN ResolveConstants_exit__scope(node)
    ELSE ScopedPass_exit__scope(node)

(* lines 185-189: ResolveConstants.exit_identifier; what is returned is the
   node or the value *)
exit_identifier(scs, node) ==
    LET r == look_up_constant(scs, node.attrs["name"])
    IN IF ~truth(r.value)
       THEN [scopes |-> r.scopes, what |-> "node", value |-> None, returned |-> node]
       ELSE [scopes |-> r.scopes, what |-> "value", value |-> r.value, returned |-> NoNode]

(* TranslationPass.transform_exit(t, node): exit_<t>(node) if the pass has
   one, the node otherwise *)
super_transform_exit(class, scs, t, node) ==
    IF class = "ResolveConstants" /\ t = "identifier"
    THEN exit_identifier(scs, node)
    ELSE [scopes |-> scs, what |-> "node", value |-> None, returned |-> node]

Helped(op, kind, name, value) ==
    [op |-> op, n |-> helper.n + 1, kind |-> kind, name |-> name, value |-> value,
     before |-> scopes, what |-> "none", returned |-> NoNode]

PassInit ==
    /\ IdleInit
    /\ textspans = NoSpans
    /\ pass \in PassClasses
    /\ open = <<>>
    /\ scopes = <<>>
    /\ helper = NoHelper
    /\ rewrite = NoRewrite
    /\ asm = NoAsm
    /\ firstrun = NoFirstRun
    /\ build = NoBuild
    /\ flatten = NoFlatten

(* transform_enter(t, node); enter__scope (lines 72-73) returns the node, and
   so does the enter_<t> of a pass that defines none *)
TransformEnter ==
    /\ helper.n < MaxOps
    /\ Len(open) < MaxDepth
    /\ \E node \in EnteredNodes :
          /\ open' = Append(open, node)
          /\ scopes' = IF node.t \in scoped_types
                        THEN Append(scopes, clone(node))
                        ELSE scopes
          /\ helper' = Helped("transform_enter", "ok", "", None)
    /\ UNCHANGED <<idleVars, textspans, treeVars, pass>>

(* transform_exit(t, node) for the innermost node entered *)
TransformExit ==
    /\ helper.n < MaxOps
    /\ open # <<>>
    /\ LET t == Last(open).t
           scoped == t \in scoped_types
           node == IF scoped THEN exit__scope(pass, Last(scopes)) ELSE Last(open)
           r == super_transform_exit(pass, scopes, t, node)
       IN /\ open' = SubSeq(open, 1, Len(open) - 1)
          /\ scopes' = IF scoped
                        THEN SubSeq(r.scopes, 1, Len(r.scopes) - 1)
                        ELSE r.scopes
          /\ helper' = [Helped("transform_exit", "ok",
                                IF t = "identifier" THEN Last(open).attrs["name"] ELSE "",
                                r.value)
                            EXCEPT !.what = r.what, !.returned = r.returned]
    /\ UNCHANGED <<idleVars, textspans, treeVars, pass>>

(* self.bind_name(name, value); self.scopes[-1] of an empty list raises *)
BindName ==
    /\ helper.n < MaxOps
    /\ \E name \in Names, value \in Values :
          IF scopes = <<>>
          THEN /\ helper' = Helped("bind_name", "IndexError", name, None)
               /\ UNCHANGED scopes
          ELSE /\ scopes' = bind_name(scopes, name, value)
               /\ helper' = Helped("bind_name", "ok", name, value)
    /\ UNCHANGED <<idleVars, textspans, treeVars, pass, open>>

BindConstant ==
    /\ helper.n < MaxOps
    /\ \E name \in Names, value \in Values :
          IF scopes = <<>>
          THEN /\ helper' = Helped("bind_constant", "IndexError", name, None)
               /\ UNCHANGED scopes
          ELSE /\ scopes' = bind_constant(scopes, name, value)
               /\ helper' = Helped("bind_constant", "ok", name, value)
    /\ UNCHANGED <<idleVars, textspans, treeVars, pass, open>>

(* value = self.look_up_name(name) *)
LookUpName ==
    /\ helper.n < MaxOps
    /\ \E name \in Names :
          LET r == look_up_name(scopes, name) IN
          /\ scopes' = r.scopes
          /\ helper' = Helped("look_up_name", "ok", name, r.value)
    /\ UNCHANGED <<idleVars, textspans, treeVars, pass, open>>

LookUpConstant ==
    /\ helper.n < MaxOps
    /\ \E name \in Names :
          LET r == look_up_constant(scopes, name) IN
          /\ scopes' = r.scopes
          /\ helper' = Helped("look_up_constant", "ok", name, r.value)
    /\ UNCHANGED <<idleVars, textspans, treeVars, pass, open>>

PassNext ==
    \/ TransformEnter
    \/ TransformExit
    \/ BindName
    \/ BindConstant
    \/ LookUpName
    \/ LookUpConstant

PassSpec == PassInit /\ [][PassNext]_vars

----------------------------------------------------------------------------
(* gold/passes/binding.py: ExplicitScopes, a pattern transform applied to a
   tree.  A tree node is its kind and its children; attrs are not matched
   (transform_attrs = False) and are carried along by clone. *)

TreeNode(t, children) == [t |-> t, children |-> children]

RootKinds == {"unit", "fun"}
InnerKinds == {"let", "call", "while"}

(* the sequences of trees with m nodes in all, kinds from InnerKinds *)
RECURSIVE Forests(_)
Forests(m) ==
    IF m = 0
    THEN {<<>>}
    ELSE UNION {{<<TreeNode(t, kids)>> \o rest :
                    t \in InnerKinds, kids \in Forests(k - 1), rest \in Forests(m - k)} :
                k \in 1 .. m}

(* the trees of up to n nodes whose root is a unit or a fun *)
Trees(n) ==
    {TreeNode(t, kids) : t \in RootKinds, kids \in UNION {Forests(m) : m \in 0 .. n - 1}}

(* lines 127-134: the pattern.  zero_or_more_nodes('before', exclude=['let'])
   is greedy, so the let matched is the first let child; inner is all the
   children of that let and after all the children that follow it *)
extend_scope_match(root) ==
    LET lets == {i \in DOMAIN root.children : root.children[i].t = "let"}
    IN IF lets = {}
       THEN [matched |-> FALSE, before |-> <<>>, inner |-> <<>>, after |-> <<>>]
       ELSE LET i == CHOOSE j \in lets : \A k \in lets : j <= k
            IN [matched |-> TRUE,
                before |-> SubSeq(root.children, 1, i - 1),
                inner |-> root.children[i].children,
                after |-> SubSeq(root.children, i + 1, Len(root.children))]

(* a variant of extend_scope that leaves the following siblings where they are *)
extend_scope_inner_only(root, before, after, inner) ==
    TreeNode(root.t, before \o <<TreeNode("let_scoped", inner)>> \o after)

(* a variant of extend_scope whose new node is still a let *)
extend_scope_unscoped(root, before, after, inner) ==
    TreeNode(root.t, before \o <<TreeNode("let", inner \o after)>>)

(* lines 135-142: extend_scope *)
extend_scope(root, before, after, inner) ==
    TreeNode(root.t, before \o <<TreeNode("let_scoped", inner \o after)>>)

(* the transform applied at one node: the rewrite if the pattern matches *)
ExplicitScopes_at(node) ==
    LET m == extend_scope_match(node)
    IN IF m.matched THEN extend_scope(node, m.before, m.after, m.inner) ELSE node

(* line 79, Order.Descending: a node is rewritten, then the children of the
   result are visited *)
RECURSIVE ExplicitScopes(_)
ExplicitScopes(node) ==
    LET rewritten == ExplicitScopes_at(node)
    IN TreeNode(rewritten.t,
                [i \in DOMAIN rewritten.children |->
                    ExplicitScopes(rewritten.children[i])])

RewriteInit ==
    /\ IdleInit
    /\ textspans = NoSpans
    /\ pass = "none"
    /\ open = <<>>
    /\ scopes = <<>>
    /\ helper = NoHelper
    /\ rewrite \in {[input |-> tree, once |-> <<>>, twice |-> <<>>] : tree \in Trees(MaxNodes)}
    /\ asm = NoAsm
    /\ firstrun = NoFirstRun
    /\ build = NoBuild
    /\ flatten = NoFlatten

(* the transform applied to the tree *)
Transform ==
    /\ rewrite.once = <<>>
    /\ rewrite' = [rewrite EXCEPT !.once = <<ExplicitScopes(rewrite.input)>>]
    /\ UNCHANGED <<idleVars, textspans, passVars, asm, firstrun, build, flatten>>

(* the transform applied to the tree it returned *)
TransformAgain ==
    /\ rewrite.once # <<>>
    /\ rewrite.twice = <<>>
    /\ rewrite' = [rewrite EXCEPT !.twice = <<ExplicitScopes(rewrite.once[1])>>]
    /\ UNCHANGED <<idleVars, textspans, passVars, asm, firstrun, build, flatten>>

RewriteNext ==
    \/ Transform
    \/ TransformAgain

RewriteSpec == RewriteInit /\ [][RewriteNext]_vars

----------------------------------------------------------------------------
(* gold/asm.py and gold/storage.py: AssembleWithRelocations applied to one
   instruction node.  The node is its kind (the opcode) and its storage
   attribute; the outcome is an AsmRun with its bytes, or the exception. *)

AbsoluteStorage(address, width) ==
    [type |-> "AbsoluteStorage", address |-> address, width |-> width]
ImmediateStorage(value, width) ==
    [type |-> "ImmediateStorage", value |-> value, width |-> width]

Widths == {1, 2}

(* an instruction node not yet assembled *)
AsmNode(opcode, storage) ==
    [opcode |-> opcode, storage |-> storage, kind |-> "", data |-> <<>>]

AsmRun(data) == [kind |-> "AsmRun", data |-> data]
AsmRaise(kind) == [kind |-> kind, data |-> <<>>]

(* struct.pack("<BB", a, b): two unsigned bytes *)
struct_pack_BB(a, b) ==
    IF a \in 0 .. UByteMax /\ b \in 0 .. UByteMax
    THEN AsmRun(<<a, b>>)
    ELSE AsmRaise("struct.error")

(* a variant of struct_pack_BH that stores the short high byte first *)
struct_pack_BH_big(a, h) ==
    IF a \in 0 .. UByteMax /\ h \in 0 .. UShortMax
    THEN AsmRun(<<a, h \div (UByteMax + 1), h % (UByteMax + 1)>>)
    ELSE AsmRaise("struct.error")

(* struct.pack("<BH", a, h): an unsigned byte, then an unsigned short with
   its low byte first *)
struct_pack_BH(a, h) ==
    IF a \in 0 .. UByteMax /\ h \in 0 .. UShortMax
    THEN AsmRun(<<a, h % (UByteMax + 1), h \div (UByteMax + 1)>>)
    ELSE AsmRaise("struct.error")

(* lines 35-42 *)
enter_lda(s) ==
    IF s.type = "ImmediateStorage"
    THEN IF s.width # 1
         THEN AsmRaise("AssemblyError")
         ELSE struct_pack_BB(OpLda, s.value)
    ELSE AsmRaise("NotImplementedError")

(* lines 44-51 *)
enter_sta(s) ==
    IF s.type = "AbsoluteStorage"
    THEN IF s.width # 1
         THEN AsmRaise("AssemblyError")
         ELSE struct_pack_BH(OpSta, s.address)
    ELSE AsmRaise("NotImplementedError")

(* lines 53-57 *)
enter_jmp(s) ==
    IF s.type = "AbsoluteStorage"
    THEN struct_pack_BH(OpJmp, s.address)
    ELSE AsmRaise("NotImplementedError")

(* lines 59-60 *)
enter_rts == AsmRun(<<OpRts>>)

AsmInit ==
    /\ IdleInit
    /\ textspans = NoSpans
    /\ pass = "none"
    /\ open = <<>>
    /\ scopes = <<>>
    /\ helper = NoHelper
    /\ rewrite = NoRewrite
    /\ \/ \E opcode \in {"lda", "sta", "jmp"}, width \in Widths, value \in 0 .. UByteMax + 1 :
              asm = AsmNode(opcode, ImmediateStorage(value, width))
       \/ \E opcode \in {"lda", "sta", "jmp"}, width \in Widths, address \in 0 .. UShortMax + 1 :
              asm = AsmNode(opcode, AbsoluteStorage(address, width))
       \/ asm = AsmNode("rts", NoStorage)
    /\ firstrun = NoFirstRun
    /\ build = NoBuild
    /\ flatten = NoFlatten

Assembled(r) ==
    /\ asm.kind = ""
    /\ asm' = [asm EXCEPT !.kind = r.kind, !.data = r.data]
    /\ UNCHANGED <<idleVars, textspans, passVars, rewrite, firstrun, build, flatten>>

EnterLda == asm.opcode = "lda" /\ Assembled(enter_lda(asm.storage))
EnterSta == asm.opcode = "sta" /\ Assembled(enter_sta(asm.storage))
EnterJmp == asm.opcode = "jmp" /\ Assembled(enter_jmp(asm.storage))
EnterRts == asm.opcode = "rts" /\ Assembled(enter_rts)

AsmNext ==
    \/ EnterLda
    \/ EnterSta
    \/ EnterJmp
    \/ EnterRts

AsmSpec == AsmInit /\ [][AsmNext]_vars

----------------------------------------------------------------------------
(* gold/asm.py: the instructions of one fun, built by the constructors,
   assembled by AssembleWithRelocations and joined by FlattenSymbol. *)

(* lines 86-113: the constructors; lda asserts an ImmediateStorage, sta and
   jmp an AbsoluteStorage *)
lda(arg) ==
    IF arg.type # "ImmediateStorage" THEN AsmRaise("AssertionError")
    ELSE [opcode |-> "lda", storage |-> arg, size |-> 2]
sta(arg) ==
    IF arg.type # "AbsoluteStorage" THEN AsmRaise("AssertionError")
    ELSE [opcode |-> "sta", storage |-> arg, size |-> 3]
jmp(arg) ==
    IF arg.type # "AbsoluteStorage" THEN AsmRaise("AssertionError")
    ELSE [opcode |-> "jmp", storage |-> arg, size |-> 3]
rts == [opcode |-> "rts", storage |-> NoStorage, size |-> 1]

(* the instruction nodes the functions are made of *)
Instructions ==
    {lda(ImmediateStorage(value, width)) : value \in {0, UByteMax}, width \in Widths}
    \cup {sta(AbsoluteStorage(address, width)) : address \in {0, 53280}, width \in Widths}
    \cup {jmp(AbsoluteStorage(address, width)) : address \in {4096, UShortMax}, width \in Widths}
    \cup {rts}

(* the handler the traversal calls on entering a node of each kind *)
enter_instruction(node) ==
    CASE node.opcode = "lda" -> enter_lda(node.storage)
      [] node.opcode = "sta" -> enter_sta(node.storage)
      [] node.opcode = "jmp" -> enter_jmp(node.storage)
      [] node.opcode = "rts" -> enter_rts

(* b"".join(data) *)
RECURSIVE bytes_join(_)
bytes_join(data) ==
    IF Len(data) = 0 THEN <<>> ELSE Head(data) \o bytes_join(Tail(data))

(* a variant of exit_fun that fills every run up to three bytes *)
exit_fun_padded(children) ==
    bytes_join([i \in DOMAIN children |->
        children[i].data \o [k \in 1 .. (3 - Len(children[i].data)) |-> 0]])

(* lines 64-73: the text of the fun_symbol *)
exit_fun(children) ==
    bytes_join([i \in DOMAIN children |-> children[i].data])

FlattenInit ==
    /\ IdleInit
    /\ textspans = NoSpans
    /\ pass = "none"
    /\ open = <<>>
    /\ scopes = <<>>
    /\ helper = NoHelper
    /\ rewrite = NoRewrite
    /\ asm = NoAsm
    /\ firstrun = NoFirstRun
    /\ build = NoBuild
    /\ \E n \in 0 .. MaxInstr :
          \E body \in [1 .. n -> Instructions] :
             flatten = [NoFlatten EXCEPT !.body = body, !.children = body,
                                         !.pc = "assembling"]

Flattened(next) ==
    /\ flatten' = next
    /\ UNCHANGED <<idleVars, textspans, passVars, rewrite, asm, firstrun, build>>

(* AssembleWithRelocations enters the next child of the fun: what the
   handler returns takes the place of the node, what it raises ends the pass *)
EnterInstruction ==
    /\ flatten.pc = "assembling"
    /\ flatten.visited < Len(flatten.children)
    /\ LET k == flatten.visited + 1
           r == enter_instruction(flatten.children[k])
       IN IF r.kind = "AsmRun"
          THEN Flattened([flatten EXCEPT !.children[k] = r, !.visited = k])
          ELSE Flattened([flatten EXCEPT !.raised = r.kind, !.pc = "raised"])

(* FlattenSymbol leaves the fun once every child is an AsmRun *)
ExitFun ==
    /\ flatten.pc = "assembling"
    /\ flatten.visited = Len(flatten.children)
    /\ Flattened([flatten EXCEPT !.text = exit_fun(flatten.children),
                                 !.pc = "flattened"])

FlattenNext ==
    \/ EnterInstruction
    \/ ExitFun

FlattenSpec == FlattenInit /\ [][FlattenNext]_vars

----------------------------------------------------------------------------
(* Vocabulary of the properties *)

TheSetup == Setups[sid]
IsSetup(name) == TheSetup.name = name
StartRule(grammar) == grammar.rules[find_starting_rule_index(grammar).index]

(* the main parser's activation, and the root entry of its output stack *)
MainFrame == frames[1]
RootEntry == MainFrame.output[1]

(* every make_node result in a value returned by the main parser *)
RECURSIVE NodesOf(_)
NodesOf(n) ==
    IF n.kind # "node" THEN {}
    ELSE {n} \cup UNION {NodesOf(n.children[i]) : i \in DOMAIN n.children}

(* every token below (or at) a value *)
RECURSIVE TokensOf(_)
TokensOf(n) ==
    IF n.kind = "token" THEN {n}
    ELSE IF n.kind = "node" THEN UNION {TokensOf(n.children[i]) : i \in DOMAIN n.children}
    ELSE {}

RECURSIVE Concat(_)
Concat(seq) == IF Len(seq) = 0 THEN "" ELSE Head(seq) \o Concat(Tail(seq))

(* a tree as text: a token is its text, a node with one child is that child,
   any other node is its children in parentheses *)
RECURSIVE Shape(_)
Shape(n) ==
    IF n.kind = "token" THEN Concat(n.text)
    ELSE IF n.kind # "node" THEN "None"
    ELSE IF Len(n.children) = 1 THEN Shape(n.children[1])
    ELSE "(" \o Concat([i \in DOMAIN n.children |-> Shape(n.children[i])]) \o ")"

(* the parse ended, and not because the lexer could not produce a token *)
ParseEnded ==
    phase = "done" /\ outcome # "GeneratorError" /\ origin # "Lexer.__call__"

----------------------------------------------------------------------------
(* C1: every parse of a token stream the lexer produces, by a parser that
   build_parser returned, ends by accepting or by raising ParseError and in
   no other way.  The code breaks this: KeyError leaves
   next_token_skip_hidden when an auxiliary parser meets a token of another
   channel. *)
C1_EndsByAcceptOrParseError ==
    ParseEnded => outcome \in {"accept", "ParseError"}

(* C2 as claimed: the value returned is a make_node result for the start
   symbol. *)
C2_ReturnsStartSymbolNode ==
    outcome = "accept" =>
        result.kind = "node" /\ result.sym = TheSetup.grammar.start_symbol

(* C2 as amended: the value returned is the only entry left on the output
   stack, the value of the one right-hand-side symbol X of the start rule: a
   make_node result for X when X is a nonterminal, the token of type X when X
   is a terminal.  Accepting reduces nothing: a node for the start symbol
   lies in the tree only below the root, and only when a rule has the start
   symbol on its right-hand side and was reduced there. *)
C2_ReturnsStartRuleOperand ==
    outcome = "accept" =>
        LET X == StartRule(TheSetup.grammar).rhs[1] IN
        /\ Len(MainFrame.output) = 1
        /\ result = RootEntry.node
        /\ IF is_terminal(X) THEN result.kind = "token" /\ result.t = X
           ELSE result.kind = "node" /\ result.sym = X
        /\ \A n \in NodesOf(result) :
              n.sym = TheSetup.grammar.start_symbol =>
                 /\ n # result
                 /\ \E k \in DOMAIN TheSetup.grammar.rules :
                       /\ TheSetup.grammar.start_symbol
                             \in Range(TheSetup.grammar.rules[k].rhs)
                       /\ \E m \in NodesOf(result) :
                             /\ m.sym = TheSetup.grammar.rules[k].lhs
                             /\ \E c \in DOMAIN m.children : m.children[c] = n

(* a parse was accepted whose tree holds a node for the start symbol below
   the root *)
C2_Witness ==
    /\ outcome = "accept"
    /\ result.kind = "node"
    /\ Len(result.children) = 3
    /\ \E n \in NodesOf(result) : n.sym = TheSetup.grammar.start_symbol

----------------------------------------------------------------------------
(* The actions the construction proposes for the main grammar of a setup,
   read off the translation table and the FOLLOW sets. *)

Analysis ==
    Tabulated([i \in DOMAIN Setups |->
        LET tt == TranslationTable(Setups[i].grammar)
            xg == build_extended_grammar(tt)
        IN [tt |-> tt, xg |-> xg, followsets |-> build_followsets(xg)]])

States(i) == 0 .. (Len(Analysis[i].tt.itemsets) - 1)

(* the rules some extended rule reduces by in state k *)
ReduceRules(i, k) ==
    {parent(r) : r \in {x \in Analysis[i].xg.rules : final_of(x) = k}}

(* the lookaheads on which state k reduces *)
ReduceLookaheads(i, k) ==
    UNION {Analysis[i].followsets[r.lhs] :
             r \in {x \in Analysis[i].xg.rules : final_of(x) = k}}

(* the action a reduction by rule r on lookahead symbol asks for *)
ReduceAction(i, r, symbol) ==
    IF r.lhs = Setups[i].grammar.start_symbol /\ symbol \in Setups[i].grammar.end_symbols
    THEN Accept ELSE Reduce(r.lhs, Len(r.rhs))

(* every action proposed for a key *)
Proposed(i, key) ==
    LET table == Analysis[i].tt.translation_table IN
    (IF key \in DOMAIN table
     THEN {IF is_terminal(key[2]) THEN Shift(table[key]) ELSE Goto(table[key])}
     ELSE {})
    \cup (IF key[1] \in States(i) /\ key[2] \in ReduceLookaheads(i, key[1])
          THEN {ReduceAction(i, r, key[2]) : r \in ReduceRules(i, key[1])}
          ELSE {})

ProposedKeys(i) ==
    DOMAIN Analysis[i].tt.translation_table
    \cup {ks \in States(i) \X UNION {ReduceLookaheads(i, k) : k \in States(i)} :
            ks[2] \in ReduceLookaheads(i, ks[1])}

(* the keys for which both a shift and a reduce are proposed *)
Conflicts(i) ==
    {key \in DOMAIN Analysis[i].tt.translation_table :
        key[2] \in ReduceLookaheads(i, key[1])}

(* the partially-applied items of the state a conflicting shift leads to *)
ShiftRules(i, key) ==
    {item \in Analysis[i].tt.itemsets[Analysis[i].tt.translation_table[key] + 1] :
        item.pointer > 0}

(* a conflict the precedence rules do not resolve *)
Unresolved(i) ==
    \/ \E k \in States(i) : Cardinality(ReduceRules(i, k)) > 1
    \/ \E key \in Conflicts(i) :
          \/ Cardinality(ShiftRules(i, key)) # 1
          \/ \E sr \in ShiftRules(i, key), rr \in ReduceRules(i, key[1]) :
                sr.prec = NoPrec \/ rr.prec = NoPrec

(* the same, worked out once per setup *)
UnresolvedAt == Tabulated([i \in DOMAIN Setups |-> Unresolved(i)])
ProposedAt ==
    Tabulated([i \in DOMAIN Setups |->
        Tabulated([key \in ProposedKeys(i) |-> Proposed(i, key)])])

(* the entry the precedence rules of C4 call for at each conflict whose two
   rules carry a precedence *)
PrecedenceVerdictAt ==
    Tabulated([i \in DOMAIN Setups |->
        Tabulated([key \in {c \in Conflicts(i) :
                    /\ Cardinality(ShiftRules(i, c)) = 1
                    /\ Cardinality(ReduceRules(i, c[1])) = 1
                    /\ \A sr \in ShiftRules(i, c), rr \in ReduceRules(i, c[1]) :
                          sr.prec # NoPrec /\ rr.prec # NoPrec} |->
            LET sr == CHOOSE x \in ShiftRules(i, key) : TRUE
                rr == CHOOSE x \in ReduceRules(i, key[1]) : TRUE
            IN [kept |-> sr.prec > rr.prec \/ (sr.prec = rr.prec /\ sr.rassoc),
                greater |-> sr.prec > rr.prec,
                tie |-> sr.prec = rr.prec,
                shift |-> Shift(Analysis[i].tt.translation_table[key]),
                reduce |-> ReduceAction(i, rr, key[2])]])])

(* C3: a table that build_parser returns has one action per key, an action
   that was proposed for the key, and build_parser fails whenever two
   actions meet at a key and the precedence rules do not resolve them. *)
C3_NoSilentOverwrite ==
    phase # "init" =>
        /\ UnresolvedAt[sid] => ~built.ok
        /\ built.ok =>
              /\ DOMAIN built.parser.agtable = DOMAIN ProposedAt[sid]
              /\ \A key \in DOMAIN ProposedAt[sid] :
                    built.parser.agtable[key] \in ProposedAt[sid][key]

C3_Witness ==
    /\ phase = "done"
    /\ ~built.ok
    /\ built.error = "shift/reduce"
    /\ UnresolvedAt[sid]

(* C4: where a shift is installed and a reduce is proposed, both rules
   carrying a precedence, the shift stays if its rule's precedence is the
   greater, or equal with the shifting rule right-associative; otherwise the
   reduce (or accept) takes the entry. *)
C4_PrecedenceResolution ==
    (phase # "init" /\ built.ok) =>
        \A key \in DOMAIN PrecedenceVerdictAt[sid] :
            LET v == PrecedenceVerdictAt[sid][key] IN
            built.parser.agtable[key] = IF v.kept THEN v.shift ELSE v.reduce

(* a table holding a shift kept by greater precedence, a shift kept by
   right-associativity at equal precedence, and a shift replaced *)
C4_Witness ==
    LET verdicts == PrecedenceVerdictAt[sid] IN
    /\ phase = "built"
    /\ \E key \in DOMAIN verdicts :
          verdicts[key].greater /\ built.parser.agtable[key].action = "shift"
    /\ \E key \in DOMAIN verdicts :
          verdicts[key].tie /\ verdicts[key].kept
          /\ built.parser.agtable[key].action = "shift"
    /\ \E key \in DOMAIN verdicts :
          ~verdicts[key].kept /\ ~verdicts[key].tie
          /\ built.parser.agtable[key].action = "reduce"

----------------------------------------------------------------------------
(* The inputs of the scenarios *)

Line_n_plus_n_plus_n == <<"n", "+", "n", "+", "n">>
Line_n_c_plus_c_n == <<"n", "#", "+", "#", "n">>

(* C5: with + left-associative at precedence 10 in S -> E; E -> E + n | n,
   the input n + n + n is accepted and the reductions build ((n+n)+n). *)
C5_LeftAssociativeTree ==
    (IsSetup("left") /\ lines = <<Line_n_plus_n_plus_n>> /\ phase = "done") =>
        outcome = "accept" /\ Shape(result) = "((n+n)+n)"

C5_Witness ==
    /\ IsSetup("left")
    /\ lines = <<Line_n_plus_n_plus_n>>
    /\ outcome = "accept"
    /\ Len(result.children) = 3
    /\ result.children[1].kind = "node"
    /\ Len(result.children[1].children) = 3

(* C6 as claimed: with + right-associative the same input builds
   (n+(n+n)). *)
C6_RightAssociativeTree ==
    (IsSetup("right") /\ lines = <<Line_n_plus_n_plus_n>> /\ phase = "done") =>
        outcome = "accept" /\ Shape(result) = "(n+(n+n))"

(* C6 as amended: marking + right-associative changes nothing for this
   grammar, whose rule E -> E + n meets no shift/reduce conflict: the input
   n + n + n is accepted and builds the left-nested tree ((n+n)+n). *)
C6_RightMarkedStillLeftNested ==
    (IsSetup("right") /\ lines = <<Line_n_plus_n_plus_n>> /\ phase = "done") =>
        /\ outcome = "accept"
        /\ Shape(result) = "((n+n)+n)"
        /\ Conflicts(sid) = {}

C6_Witness ==
    /\ IsSetup("right")
    /\ lines = <<Line_n_plus_n_plus_n>>
    /\ outcome = "accept"
    /\ result.children[1].kind = "node"
    /\ result.children[3].kind = "token"

(* C7: with comment tokens on channel 1 and a comment grammar on that
   channel, n /*c1*/ + /*c2*/ n parses to the tree of n + n.  The code
   breaks this: the parse ends with KeyError. *)
C7_CommentsParseAsWithout ==
    (IsSetup("comments") /\ lines = <<Line_n_c_plus_c_n>> /\ phase = "done") =>
        outcome = "accept" /\ Shape(result) = "(n+n)"

----------------------------------------------------------------------------
(* The cursor of the stream, and the tokens of the input read off the lines:
   with the lexer under test every character is one token. *)

Cursor == <<stream.line, stream.column>>

RECURSIVE InputFrom(_)
InputFrom(i) ==
    IF i > Len(lines) THEN <<>>
    ELSE [j \in 1 .. Len(lines[i]) |-> [text |-> <<lines[i][j]>>, start |-> <<i, j - 1>>]]
         \o InputFrom(i + 1)

InputTokens == InputFrom(1)

(* the channel the lexer rules give a token text *)
ChannelOf(text) ==
    LET rule == CHOOSE r \in Range(TheLexer.mode_rules[NORMAL_MODE]) : text[1] \in r[2]
    IN rule[4]

KeyOf(token) == [text |-> token.text, start |-> span_start(token.span)]

(* a token read by a parser that it is not the parser for *)
ForeignTo(entry) ==
    entry.token.channel # entry.by /\ entry.token.channel # CHANNEL_ALL

(* C8: an auxiliary parse advances the stream only over tokens of its own
   channel and returns at the first token after the hidden run.  A token of
   another channel that an auxiliary parser reads is given back: the cursor
   stands at its start when it was the last token read, and the next read
   starts there otherwise.  An auxiliary parse that has given back a token
   of another channel returns to its caller.  When an auxiliary parse
   returns, every token it kept lies before the cursor, no token of another
   channel that it read lies before the cursor, and the caller's next token
   starts at the cursor.  The code breaks this: the auxiliary parse that
   gave back a token of another channel ends with KeyError and never
   returns. *)
C8_AuxReturnsAtFirstTokenAfterRun ==
    /\ ~(phase = "done" /\ Len(frames) > 1 /\ log # <<>> /\ ForeignTo(Last(log)))
    /\ \A i \in DOMAIN log :
          (log[i].by # CHANNEL_DEFAULT /\ ForeignTo(log[i])) =>
             IF i = Len(log)
             THEN Cursor = span_start(log[i].token.span)
             ELSE span_start(log[i + 1].token.span) = span_start(log[i].token.span)
    /\ \A k \in DOMAIN returns : \A i \in DOMAIN log :
          log[i].by = returns[k].channel =>
             IF ForeignTo(log[i])
             THEN TupleLE(<<returns[k].line, returns[k].column>>,
                          span_start(log[i].token.span))
             ELSE TupleLE(span_end(log[i].token.span),
                          <<returns[k].line, returns[k].column>>)
    /\ (returns # <<>> /\ Len(frames) = 1 /\ Last(log).by = CHANNEL_DEFAULT) =>
          span_start(Last(log).token.span)
             = <<Last(returns).line, Last(returns).column>>

(* C9: the tokens shifted so far, by the main parser and by the auxiliary
   parsers together, are the first tokens of the input in source order, each
   once and each by the parser of its channel; a parser that holds a
   lookahead holds the input token after the shifted ones, of its own
   channel, or the end of input when none is left; an accepted parse has
   shifted every token, so the main parser has shifted exactly the
   default-channel tokens and the hidden ones went to the auxiliary parser
   in between; a default-channel token that follows a hidden token the
   auxiliary parser has shifted is delivered to the main parser.  The code
   breaks the last part: the parse ends with KeyError before the main
   parser sees the token. *)
C9_TokensShiftedInSourceOrder ==
    /\ (/\ phase = "done"
        /\ shifted # <<>>
        /\ Last(shifted).by = CHANNEL_HIDDEN
        /\ Len(shifted) < Len(InputTokens)
        /\ ChannelOf(InputTokens[Len(shifted) + 1].text) = CHANNEL_DEFAULT) =>
          /\ Last(log).by = CHANNEL_DEFAULT
          /\ KeyOf(Last(log).token) = InputTokens[Len(shifted) + 1]
    /\ Len(shifted) <= Len(InputTokens)
    /\ [i \in DOMAIN shifted |-> KeyOf(shifted[i].token)]
          = SubSeq(InputTokens, 1, Len(shifted))
    /\ \A i \in DOMAIN shifted :
          /\ shifted[i].by = shifted[i].token.channel
          /\ shifted[i].token.channel = ChannelOf(shifted[i].token.text)
    /\ (phase = "parsing" /\ Top.pc = "dispatch") =>
          IF Top.lookahead.channel = CHANNEL_ALL
          THEN Len(shifted) = Len(InputTokens)
          ELSE /\ Top.lookahead.channel = TopParser.channel
               /\ KeyOf(Top.lookahead) = InputTokens[Len(shifted) + 1]
    /\ outcome = "accept" =>
          /\ Len(shifted) = Len(InputTokens)
          /\ LET main == SelectSeq(shifted, LAMBDA e : e.by = CHANNEL_DEFAULT) IN
             [i \in DOMAIN main |-> KeyOf(main[i].token)]
                = SelectSeq(InputTokens,
                            LAMBDA t : ChannelOf(t.text) = CHANNEL_DEFAULT)

(* the least start and the greatest end of the tokens below a value *)
TokensStart(n) == TupleMin({span_start(t.span) : t \in TokensOf(n)})
TokensEnd(n) == TupleMax({span_end(t.span) : t \in TokensOf(n)})

(* a node made by reducing an empty rule *)
HasEmptyNode(n) == \E m \in NodesOf(n) : Len(m.children) = 0

(* C10 as claimed: after a successful parse the span of the root entry is the
   cover of the spans of the tokens below the root, for every grammar. *)
C10_RootSpanIsTokenCover ==
    (outcome = "accept" /\ TokensOf(result) # {}) =>
        /\ span_start(RootEntry.span) = TokensStart(result)
        /\ span_end(RootEntry.span) = TokensEnd(result)

(* C10 as amended: after a successful parse the span of the root entry
   contains the span of every token below the root, and it is their cover
   when no node of the tree was made by reducing an empty rule. *)
C10_RootSpanContainsTokens ==
    (outcome = "accept" /\ TokensOf(result) # {}) =>
        /\ \A t \in TokensOf(result) : TextSpan_contains(RootEntry.span, t.span)
        /\ ~HasEmptyNode(result) =>
              /\ span_start(RootEntry.span) = TokensStart(result)
              /\ span_end(RootEntry.span) = TokensEnd(result)

C10_Witness ==
    /\ outcome = "accept"
    /\ ~HasEmptyNode(result)
    /\ Cardinality(TokensOf(result)) >= 3
    /\ RootEntry.span.end_column - RootEntry.span.start_column >= 3

----------------------------------------------------------------------------
(* the terminal symbols that have an action for the top state of a frame *)
AcceptableTokens(parser, frame) ==
    {k[2] : k \in {key \in DOMAIN parser.agtable :
                      /\ key[1] = Last(frame.set_stack)
                      /\ key[2] \notin Nonterminals
                      /\ parser.agtable[key].action \in {"shift", "reduce", "accept"}}}

(* the conflicts of a setup's grammar that cannot be resolved, by kind *)
HardConflictsAt ==
    Tabulated([i \in DOMAIN Setups |->
        [partials |-> \E key \in Conflicts(i) : Cardinality(ShiftRules(i, key)) # 1,
         shift_prec |-> \E key \in Conflicts(i) :
                           \E sr \in ShiftRules(i, key) : sr.prec = NoPrec,
         reduce_prec |-> \E key \in Conflicts(i) :
                            \E rr \in ReduceRules(i, key[1]) : rr.prec = NoPrec]])

(* C12: build_parser fails and returns no parser when a shift/reduce
   conflict meets a shifting rule without precedence, a reducing rule
   without precedence, or a shift target state that does not hold exactly
   one partially-applied item; and it fails with a shift/reduce error for
   one of these reasons only. *)
C12_UnresolvedConflictFails ==
    phase # "init" =>
        LET hard == HardConflictsAt[sid] IN
        /\ (hard.partials \/ hard.shift_prec \/ hard.reduce_prec) =>
              ~built.ok /\ built.parser = <<>>
        /\ built.error = "shift/reduce (GENERATOR BUG)" => hard.partials
        /\ built.error = "shift/reduce" => (hard.shift_prec \/ hard.reduce_prec)

C12_Witness ==
    /\ phase = "done"
    /\ outcome = "GeneratorError"
    /\ built.error = "shift/reduce (GENERATOR BUG)"
    /\ HardConflictsAt[sid].partials
    /\ ~HardConflictsAt[sid].shift_prec
    /\ ~HardConflictsAt[sid].reduce_prec

(* the rules whose right-hand side is complete in state k of a setup's
   grammar: the rules the state can reduce by *)
CompleteRules(i, k) ==
    {with_pointer(item, NoPointer) :
        item \in {x \in Analysis[i].tt.itemsets[k + 1] : x.pointer = Len(x.rhs)}}

CompleteRulesAt ==
    Tabulated([i \in DOMAIN Setups |->
        Tabulated([k \in States(i) |-> CompleteRules(i, k)])])

(* C13: when two different rules are complete in one state, that is when
   two extended rules with different parents share a final state,
   build_parser fails with the reduce/reduce error; a parser that is
   returned has at most one rule to reduce by in each state, and every
   reduce entry of the state is by that rule. *)
C13_ReduceReduceFails ==
    phase # "init" =>
        /\ (\E k \in States(sid) : Cardinality(CompleteRulesAt[sid][k]) > 1) =>
              ~built.ok /\ built.error = "reduce/reduce"
        /\ built.error = "reduce/reduce" =>
              \E k \in States(sid) : Cardinality(CompleteRulesAt[sid][k]) > 1
        /\ built.ok =>
              \A k \in States(sid) :
                 /\ Cardinality(CompleteRulesAt[sid][k]) <= 1
                 /\ \A key \in DOMAIN built.parser.agtable :
                       (key[1] = k /\ built.parser.agtable[key].action = "reduce") =>
                          \E r \in CompleteRulesAt[sid][k] :
                             built.parser.agtable[key] = Reduce(r.lhs, Len(r.rhs))

C13_Witness ==
    /\ phase = "done"
    /\ outcome = "GeneratorError"
    /\ built.error = "reduce/reduce"
    /\ \E k \in States(sid) :
          \E r1, r2 \in CompleteRulesAt[sid][k] : r1.lhs # r2.lhs

(* the modes of the rules in progress in state k of a setup's grammar *)
ModesInProgressAt ==
    Tabulated([i \in DOMAIN Setups |->
        Tabulated([k \in States(i) |->
            {item.mode : item \in {x \in Analysis[i].tt.itemsets[k + 1] :
                                      x.pointer > 0}}])])

(* C14: the mode table of a parser has one mode per state: the mode of the
   partially-applied items of the state, which is the same for all of them,
   or NORMAL_MODE when the state has none; when the partially-applied items
   of some state carry two modes construction fails, and it fails with the
   mode/mode error only then. *)
C14_OneModePerState ==
    phase # "init" =>
        /\ (\E k \in States(sid) : Cardinality(ModesInProgressAt[sid][k]) > 1) =>
              ~built.ok /\ built.error = "mode/mode conflict"
        /\ built.error = "mode/mode conflict" =>
              \E k \in States(sid) : Cardinality(ModesInProgressAt[sid][k]) > 1
        /\ built.ok =>
              /\ Len(built.parser.modes) = Cardinality(States(sid))
              /\ \A k \in States(sid) :
                    IF ModesInProgressAt[sid][k] = {}
                    THEN built.parser.modes[k + 1] = NORMAL_MODE
                    ELSE ModesInProgressAt[sid][k] = {built.parser.modes[k + 1]}

C14_Witness ==
    /\ phase = "built"
    /\ \E k \in States(sid) : built.parser.modes[k + 1] # NORMAL_MODE
    /\ \E k \in States(sid) :
          ModesInProgressAt[sid][k] = {} /\ built.parser.modes[k + 1] = NORMAL_MODE
    /\ \E k \in States(sid) :
          ModesInProgressAt[sid][k] = {NORMAL_MODE}

(* C11: when the table has no entry for the top state and the lookahead,
   the parse raises ParseError and the message names the lookahead and lists
   the terminal symbols that have an action for the top state.  The code
   breaks this: the message also lists the nonterminals that have a goto
   entry for the top state. *)
C11_ParseErrorListsAcceptableTokens ==
    outcome = "ParseError" =>
        /\ message.got = Top.lookahead
        /\ <<Last(Top.set_stack), Top.lookahead.t>> \notin DOMAIN TopParser.agtable
        /\ message.expected = AcceptableTokens(TopParser, Top)

----------------------------------------------------------------------------
(* Vocabulary of the lexer and stream properties *)

(* the rules as listed when the lexer of a setup was made *)
ListedRules(i) ==
    IF Setups[i].name \in {"modes", "modeclash"} THEN ModeRules ELSE TheRules

RulesOfMode(i, mode) == SelectSeq(ListedRules(i), LAMBDA r : r[1] = mode)

IsEof(token) == token.t = Setups[sid].lexer.eof

(* no character is left at or after the cursor *)
Exhausted(s) ==
    /\ s.column = Len(s.current)
    /\ \A l \in DOMAIN s.stream : s.stream[l] = <<>>

(* a character stands at the cursor, or at the start of the next line when
   the cursor is at the end of its line *)
CharToTry(s) ==
    \/ s.column < Len(s.current)
    \/ (s.column = Len(s.current) /\ s.stream # <<>> /\ Head(s.stream) # <<>>)

(* the stream with the cursor on that character *)
OnChar(s) ==
    IF s.column < Len(s.current) THEN s
    ELSE [s EXCEPT !.current = Head(s.stream), !.stream = Tail(s.stream),
                   !.line = @ + 1, !.column = 0]

TriedChar(s) == OnChar(s).current[OnChar(s).column + 1]

(* the character of the input a token starts at *)
CharAt(token) == lines[token.span.start_line][token.span.start_column + 1]

(* the characters of the input from the cursor of s up to a position *)
CharsBetween(s, line, column) ==
    {lc \in UNION {{l} \X (0 .. (Len(lines[l]) - 1)) : l \in DOMAIN lines} :
        TupleLE(<<s.line, s.column>>, lc) /\ TupleLT(lc, <<line, column>>)}

(* C15: a token the lexer returns in a mode comes from the first rule listed
   for that mode that matches where the token was taken, and that is the
   first character at or after the cursor: the token has that rule's token
   type and channel and the matched text, its span is the match, and the
   cursor stands at the end of the match.  The code breaks this: after two
   empty lines the rules are tried on different lines, and the token comes
   from a later rule although an earlier one matches the same character. *)
C15_FirstMatchingRuleWins ==
    (call.op = "lex" /\ call.kind = "token" /\ ~IsEof(call.token)) =>
        LET rules == RulesOfMode(sid, call.mode)
            span == call.token.span
            ch == CharAt(call.token)
        IN
        /\ CharsBetween(call.before, span.start_line, span.start_column) = {}
        /\ \E j \in DOMAIN rules :
              /\ ch \in rules[j][2]
              /\ \A k \in 1 .. (j - 1) : ch \notin rules[k][2]
              /\ call.token = Token(rules[j][3], <<ch>>, rules[j][4],
                                    TextSpan(span.start_line, span.start_column,
                                             span.start_line, span.start_column + 1))
        /\ <<stream.line, stream.column>> = <<span.start_line, span.start_column + 1>>
        /\ stream.current = lines[span.start_line]

(* C16 as claimed: when no character is left in the stream the lexer returns
   the EOF token, of the configured type, on channel ALL and with a
   zero-width span at the cursor, and does not raise.  The code breaks this:
   when the lexer has moved to a last line that is empty, StopIteration
   leaves Lexer.__call__. *)
C16_ExhaustedGivesEof ==
    (call.op = "lex" /\ Exhausted(call.before)
       /\ call.mode \in DOMAIN Setups[sid].lexer.mode_rules) =>
        /\ call.kind = "token"
        /\ call.token = Token(Setups[sid].lexer.eof, <<>>, CHANNEL_ALL,
                              TextSpan(stream.line, stream.column,
                                       stream.line, stream.column))

(* no rule listed for the mode matches the character the lexer tries *)
NothingMatches(i, mode, s) ==
    /\ CharToTry(s)
    /\ RulesOfMode(i, mode) # <<>>
    /\ \A j \in DOMAIN RulesOfMode(i, mode) : TriedChar(s) \notin RulesOfMode(i, mode)[j][2]

(* C17 as claimed: when a character is left and no rule of the mode matches
   it, the lexer raises, returns no token and leaves the cursor column where
   it was. *)
C17_NoMatchLeavesColumn ==
    (call.op = "lex" /\ NothingMatches(sid, call.mode, call.before)) =>
        /\ call.kind = "AssertionError"
        /\ call.token = NoToken
        /\ stream.column = call.before.column

(* C17 as amended: when a character is left and no rule of the mode matches
   it, the lexer raises AssertionError, returns no token and consumes
   nothing: the cursor stands on the unmatched character, which is where it
   was unless it stood at the end of a line, and then it is at column 0 of
   the next line. *)
C17_NoMatchConsumesNothing ==
    (call.op = "lex" /\ NothingMatches(sid, call.mode, call.before)) =>
        /\ call.kind = "AssertionError"
        /\ call.token = NoToken
        /\ stream = OnChar(call.before)
        /\ call.before.column < Len(call.before.current) => stream = call.before

C17_Witness ==
    /\ call.op = "lex"
    /\ call.kind = "AssertionError"
    /\ NothingMatches(sid, call.mode, call.before)
    /\ call.before.column = Len(call.before.current)
    /\ call.before.column > 0
    /\ stream.column = 0

(* the token most recently returned by produce() *)
ByProduce == SelectSeq(produced, LAMBDA e : ~IsEof(e.token))

(* C18 as claimed: a rewind with a token that produce() returned is accepted
   only when it is the token most recently returned by produce(). *)
C18_RewindOnlyMostRecent ==
    (call.op = "rewind" /\ call.kind = "ok" /\ ~IsEof(call.token)) =>
        /\ ByProduce # <<>>
        /\ call.token = Last(ByProduce).token

(* C18 as amended: a rewind is accepted exactly when the token ends at the
   cursor, whether or not it is the most recently produced token; it then
   puts the cursor at the column where the token starts, and lexing again in
   the mode the token was lexed in returns a token of the same text and
   span, taken from the first rule of the mode that matches it, and the
   stream as it was before the rewind; a rewind with a token that ends
   elsewhere is rejected and changes nothing. *)
C18_RewindChecksEndOnly ==
    call.op = "rewind" =>
        /\ call.kind = "ok" <=>
              span_end(call.token.span) = <<call.before.line, call.before.column>>
        /\ call.kind = "ok" =>
              /\ stream = [call.before EXCEPT !.column = call.token.span.start_column]
              /\ LET again == Lexer_call(Setups[sid].lexer, stream, call.mode)
                     rules == RulesOfMode(sid, call.mode)
                 IN
                 /\ again.kind = "token"
                 /\ again.token.text = call.token.text
                 /\ again.token.span = call.token.span
                 /\ IF IsEof(call.token) THEN again.token = call.token
                    ELSE \E j \in DOMAIN rules :
                       /\ call.token.text[1] \in rules[j][2]
                       /\ \A k \in 1 .. (j - 1) : call.token.text[1] \notin rules[k][2]
                       /\ again.token.t = rules[j][3]
                       /\ again.token.channel = rules[j][4]
                 /\ again.stream = call.before
        /\ call.kind # "ok" =>
              /\ call.kind = "AssertionError"
              /\ stream = call.before

(* an accepted rewind with a token that is not the most recent one *)
C18_Witness ==
    /\ call.op = "rewind"
    /\ call.kind = "ok"
    /\ ~IsEof(call.token)
    /\ call.token # Last(ByProduce).token
    /\ stream.column = call.token.span.start_column
    /\ stream.column < call.before.column

----------------------------------------------------------------------------
(* C19: TextSpan(a, b, c, d) and TextSpan(c, d, a, b) are equal, and every
   constructed TextSpan has (start_line, start_column) <= (end_line,
   end_column) in lexicographic order.  The formula adds that the endpoints
   of a constructed span are the two corners it was given. *)

Constructed == Range(textspans.given) \cup Range(textspans.swapped)
Corners ==
    {<<textspans.args[1], textspans.args[2]>>, <<textspans.args[3], textspans.args[4]>>}

C19_TextSpanNormalises ==
    /\ \A s \in Range(textspans.given) : \A t \in Range(textspans.swapped) : s = t
    /\ \A s \in Constructed :
          /\ <<s.start_line, s.start_column>> \in Corners
          /\ <<s.end_line, s.end_column>> \in Corners
          /\ Corners = {<<s.start_line, s.start_column>>, <<s.end_line, s.end_column>>}
          /\ \/ s.start_line < s.end_line
             \/ s.start_line = s.end_line /\ s.start_column <= s.end_column

(* both spans constructed from corners given in descending order *)
C19_Witness ==
    /\ textspans.given # <<>>
    /\ textspans.swapped # <<>>
    /\ \/ textspans.args[1] > textspans.args[3]
       \/ textspans.args[1] = textspans.args[3] /\ textspans.args[2] > textspans.args[4]

----------------------------------------------------------------------------
(* C20: look_up_name(name) and look_up_constant(name) return the value bound
   in the innermost (most recently pushed) open scope that binds the name,
   so an inner binding shadows an outer one; they return None when no open
   scope binds the name.  Stated on the scopes as they were when the helper
   was called, read directly from the attrs of each scope. *)

AttrOf(op) == IF op = "look_up_name" THEN "known_names" ELSE "known_constants"

(* the positions in the stack of the scopes binding the name in the attr *)
Binding(scs, attr, name) ==
    {i \in DOMAIN scs : attr \in DOMAIN scs[i].attrs /\ name \in DOMAIN scs[i].attrs[attr]}

Innermost(set) == CHOOSE i \in set : \A j \in set : j <= i

C20_LookupReturnsInnermostBinding ==
    helper.op \in {"look_up_name", "look_up_constant"} =>
        LET attr == AttrOf(helper.op)
            binding == Binding(helper.before, attr, helper.name)
        IN /\ helper.kind = "ok"
           /\ IF binding = {}
              THEN helper.value = None
              ELSE helper.value = helper.before[Innermost(binding)].attrs[attr][helper.name]

(* a lookup of a name that two open scopes bind to different values *)
C20_Witness ==
    /\ helper.op \in {"look_up_name", "look_up_constant"}
    /\ LET attr == AttrOf(helper.op)
           binding == Binding(helper.before, attr, helper.name)
       IN /\ Cardinality(binding) = 2
          /\ \E i, j \in binding :
                helper.before[i].attrs[attr][helper.name]
                    # helper.before[j].attrs[attr][helper.name]

----------------------------------------------------------------------------
(* C21: for every constant binding n = v held in a scope open at an
   identifier node named n, ResolveConstants.exit_identifier returns v in
   place of the identifier, for every bound value v (the innermost binding,
   as in C20); an identifier bound in no open scope is returned unchanged. *)

IdentifierExit ==
    /\ pass = "ResolveConstants"
    /\ helper.op = "transform_exit"
    /\ helper.name \in Names

C21_IdentifierReplacedByBinding ==
    IdentifierExit =>
        LET binding == Binding(helper.before, "known_constants", helper.name)
        IN IF binding = {}
           THEN /\ helper.what = "node"
                /\ helper.returned = AstNode("identifier", "name" :> helper.name)
           ELSE /\ helper.what = "value"
                /\ helper.value
                     = helper.before[Innermost(binding)].attrs["known_constants"][helper.name]

----------------------------------------------------------------------------
(* C22: no scope node (unit or fun) that ResolveConstants returns carries a
   known_constants attribute, and leaving a scope without one is no error;
   the rest of its attrs is kept.  Until its exit a scope on the stack keeps
   every binding it was entered with, so the lookups made inside still see
   them, and an exit leaves the scopes that stay open as they were. *)

ScopeExit ==
    /\ pass = "ResolveConstants"
    /\ helper.op = "transform_exit"
    /\ helper.returned.t \in scoped_types

IsScoped(node) == node.t \in scoped_types

C22_ScopeExitStripsConstants ==
    /\ ScopeExit =>
          LET top == helper.before[Len(helper.before)]
          IN /\ helper.kind = "ok"
             /\ helper.what = "node"
             /\ helper.returned.t = top.t
             /\ DOMAIN helper.returned.attrs = DOMAIN top.attrs \ {"known_constants"}
             /\ \A a \in DOMAIN helper.returned.attrs : helper.returned.attrs[a] = top.attrs[a]
             /\ scopes = SubSeq(helper.before, 1, Len(helper.before) - 1)
    /\ pass = "ResolveConstants" =>
          LET entered == SelectSeq(open, IsScoped)
          IN /\ Len(entered) = Len(scopes)
             /\ \A i \in DOMAIN scopes :
                   \A a \in DOMAIN entered[i].attrs :
                      /\ a \in DOMAIN scopes[i].attrs
                      /\ DOMAIN entered[i].attrs[a] \subseteq DOMAIN scopes[i].attrs[a]

(* a scope holding a constant binding has been left, an outer one stays open *)
C22_Witness ==
    /\ ScopeExit
    /\ Len(helper.before) = 2
    /\ LET top == helper.before[2]
       IN /\ "known_constants" \in DOMAIN top.attrs
          /\ top.attrs["known_constants"] # EmptyDict

----------------------------------------------------------------------------
(* C23: ExplicitScopes keeps the children before the first let in place and
   replaces that let and all following siblings by one let_scoped node
   holding the let's inner children followed by those siblings; applied
   descending, k lets in sequence end as k nested let_scoped nodes and no let
   is left.  Stated on the nodes in document order with their depths: in
   the result every let has become a let_scoped, and every node lies deeper
   than in the input by the number of lets that precede it, or one of its
   ancestors, among the children of one parent (a let that is itself the
   child of such a let counts too, since the siblings following the outer
   let have become siblings following the inner one). *)

RECURSIVE Concatenation(_)
Concatenation(seqs) ==
    IF seqs = <<>> THEN <<>> ELSE seqs[1] \o Concatenation(SubSeq(seqs, 2, Len(seqs)))

(* the nodes of a tree in document order, each as <<kind, depth>> *)
RECURSIVE Profile(_, _)
Profile(node, depth) ==
    <<(<<node.t, depth>>)>>
    \o Concatenation([i \in DOMAIN node.children |-> Profile(node.children[i], depth + 1)])

(* the let_scoped nodes that the first i children of a node end in, one
   below the other: one for each let among them, and those of its own let
   children, which take in the same following siblings *)
RECURSIVE ScopesOpened(_, _)
ScopesOpened(children, i) ==
    IF i = 0
    THEN 0
    ELSE ScopesOpened(children, i - 1)
         + (IF children[i].t = "let"
            THEN 1 + ScopesOpened(children[i].children, Len(children[i].children))
            ELSE 0)

LetsBefore(children, i) == ScopesOpened(children, i - 1)

RECURSIVE ScopedProfile(_, _)
ScopedProfile(node, depth) ==
    <<(<<IF node.t = "let" THEN "let_scoped" ELSE node.t, depth>>)>>
    \o Concatenation([i \in DOMAIN node.children |->
            ScopedProfile(node.children[i], depth + 1 + LetsBefore(node.children, i))])

Leaf(t) == [t |-> t, children |-> <<>>]
LetLetCall == [t |-> "fun", children |-> <<Leaf("let"), Leaf("let"), Leaf("call")>>]
LetLetCallScoped ==
    [t |-> "fun", children |->
        <<[t |-> "let_scoped", children |->
            <<[t |-> "let_scoped", children |-> <<Leaf("call")>>]>>]>>]

C23_LetsBecomeNestedScopes ==
    rewrite.once # <<>> =>
        /\ Profile(rewrite.once[1], 0) = ScopedProfile(rewrite.input, 0)
        /\ rewrite.input = LetLetCall => rewrite.once[1] = LetLetCallScoped

(* the transform has rewritten a node with something before its first let
   and a second let after it *)
C23_Witness ==
    /\ rewrite.once # <<>>
    /\ \E i, j \in DOMAIN rewrite.input.children :
          /\ 1 < i
          /\ i < j
          /\ rewrite.input.children[1].t # "let"
          /\ rewrite.input.children[i].t = "let"
          /\ rewrite.input.children[j].t = "let"

----------------------------------------------------------------------------
(* C24: ExplicitScopes does not apply to top-level declarations: a let that
   is a direct child of the unit root is not rewritten into let_scoped and
   the unit's following children are not moved under it. *)

C24_TopLevelLetKept ==
    (rewrite.once # <<>> /\ rewrite.input.t = "unit") =>
        /\ Len(rewrite.once[1].children) = Len(rewrite.input.children)
        /\ \A i \in DOMAIN rewrite.input.children :
              rewrite.once[1].children[i].t = rewrite.input.children[i].t

----------------------------------------------------------------------------
(* C25: applying the ExplicitScopes transform to a tree it has produced
   returns an equal tree, and no node of that tree has a let child. *)

RECURSIVE Kinds(_)
Kinds(node) == {node.t} \cup UNION {Kinds(node.children[i]) : i \in DOMAIN node.children}

C25_TransformIdempotent ==
    /\ rewrite.once # <<>> => "let" \notin Kinds(rewrite.once[1])
    /\ rewrite.twice # <<>> => rewrite.twice[1] = rewrite.once[1]

(* the transform applied again to a tree in which it had rewritten two lets *)
C25_Witness ==
    /\ rewrite.twice # <<>>
    /\ Cardinality({i \in DOMAIN rewrite.input.children :
                        rewrite.input.children[i].t = "let"}) >= 2
    /\ rewrite.once[1] # rewrite.input

----------------------------------------------------------------------------
(* C26: AssembleWithRelocations is total on the four opcodes with valid
   operands (lda with Immediate storage of width 1, sta with Absolute
   storage of width 1, jmp with Absolute storage, rts) and raises
   AssemblyError, not another kind of error, on any other combination of
   opcode, storage kind and width.  Operands are taken within the range of
   their byte or short. *)

InRange(s) ==
    \/ s.type = "NoneType"
    \/ s.type = "ImmediateStorage" /\ s.value <= UByteMax
    \/ s.type = "AbsoluteStorage" /\ s.address <= UShortMax

ValidOperands ==
    \/ asm.opcode = "lda" /\ asm.storage.type = "ImmediateStorage" /\ asm.storage.width = 1
    \/ asm.opcode = "sta" /\ asm.storage.type = "AbsoluteStorage" /\ asm.storage.width = 1
    \/ asm.opcode = "jmp" /\ asm.storage.type = "AbsoluteStorage"
    \/ asm.opcode = "rts"

C26_AssemblyErrorOnEverythingElse ==
    (asm.kind # "" /\ InRange(asm.storage)) =>
        asm.kind = IF ValidOperands THEN "AsmRun" ELSE "AssemblyError"

----------------------------------------------------------------------------
(* C27: for every address a in 0..65535, sta with AbsoluteStorage(a, 1)
   emits [0x8D, a mod 256, a div 256] and jmp with AbsoluteStorage(a, any
   width) emits [0x4C, a mod 256, a div 256]; for every value v in 0..255,
   lda with ImmediateStorage(v, 1) emits [0xA9, v]; rts emits [0x60].  The
   formula reads the bytes back: the first is the opcode, and low byte plus
   256 times high byte is the address. *)

C27_BytesEmitted ==
    (asm.kind # "" /\ InRange(asm.storage) /\ ValidOperands) =>
        /\ asm.kind = "AsmRun"
        /\ \A i \in DOMAIN asm.data : asm.data[i] \in 0 .. 255
        /\ asm.opcode = "lda" =>
              /\ Len(asm.data) = 2
              /\ asm.data[1] = 169
              /\ asm.data[2] = asm.storage.value
        /\ asm.opcode \in {"sta", "jmp"} =>
              /\ Len(asm.data) = 3
              /\ asm.data[1] = (IF asm.opcode = "sta" THEN 141 ELSE 76)
              /\ asm.data[2] + 256 * asm.data[3] = asm.storage.address
        /\ asm.opcode = "rts" => asm.data = <<96>>
        /\ (asm.opcode = "sta" /\ asm.storage.address = 53280) => asm.data = <<141, 32, 208>>
        /\ (asm.opcode = "jmp" /\ asm.storage.address = 4096) => asm.data = <<76, 0, 16>>

(* sta $D020 assembled *)
C27_Witness ==
    /\ asm.kind = "AsmRun"
    /\ asm.opcode = "sta"
    /\ asm.storage.address = 53280
    /\ asm.storage.width = 1

----------------------------------------------------------------------------
(* The translation tables of a setup, of the main grammar and of every
   hidden grammar, and their item sets, each with the kernel it was closed
   from. *)

GrammarsOf(i) ==
    {Setups[i].grammar} \cup Range(Setups[i].hidden)

TablesAt ==
    Tabulated([i \in DOMAIN Setups |->
        {[grammar |-> g, tt |-> TranslationTable(g)] : g \in GrammarsOf(i)}])

ItemSetsOf(table) ==
    {[grammar |-> table.grammar, kernel |-> table.tt.kernels[k],
      items |-> table.tt.itemsets[k]] : k \in DOMAIN table.tt.itemsets}

ItemSetsAt ==
    Tabulated([i \in DOMAIN Setups |-> UNION {ItemSetsOf(t) : t \in TablesAt[i]}])

(* every rule of the grammar with the dot at the front *)
InitialItems(grammar) ==
    {with_pointer(grammar.rules[k], 0) : k \in DOMAIN grammar.rules}

(* the closure rule: a dot before a nonterminal N brings in every rule
   producing N with the dot at the front *)
Closed(grammar, items) ==
    \A item \in items :
       (next_symbol(item) # NoneSym /\ ~is_terminal(next_symbol(item))) =>
          \A k \in DOMAIN grammar.rules :
             grammar.rules[k].lhs = next_symbol(item) =>
                with_pointer(grammar.rules[k], 0) \in items

(* the items the closure rule forces on top of the initial items: what
   every closed set containing the initial items has *)
Forced(grammar, initial) ==
    {item \in initial \cup InitialItems(grammar) :
        \A more \in SUBSET InitialItems(grammar) :
           Closed(grammar, initial \cup more) => item \in initial \cup more}

ItemSetsClosedAt ==
    Tabulated([i \in DOMAIN Setups |->
        \A s \in ItemSetsAt[i] :
           /\ s.kernel \subseteq s.items
           /\ Closed(s.grammar, s.items)
           /\ s.items = Forced(s.grammar, s.kernel)])

(* C28: every item set built for a parser is closed: when the dot of one of
   its items stands before a nonterminal N, every rule of the grammar with
   left-hand side N is in the set with pointer 0; and the set holds the
   initial items and what this rule forces, nothing else. *)
C28_ItemSetsClosed ==
    phase # "init" => ItemSetsClosedAt[sid]

(* a parser was built from a grammar with an item set the closure reaches
   in two rounds: an item of the set is neither initial nor brought in by an
   initial item, but by an item the first round added *)
C28_Witness ==
    /\ phase = "built"
    /\ \E s \in ItemSetsAt[sid] :
          \E item \in s.items \ s.kernel :
             /\ item.pointer = 0
             /\ \A init \in s.kernel : next_symbol(init) # item.lhs
             /\ \E via \in s.items \ s.kernel : next_symbol(via) = item.lhs

----------------------------------------------------------------------------
(* the symbols that follow a dot in an item set *)
AfterDot(items) ==
    {item.rhs[item.pointer + 1] : item \in {x \in items : x.pointer < Len(x.rhs)}}

(* the items of an item set with the dot before X, the dot moved over X *)
MovedOver(items, X) ==
    {[item EXCEPT !.pointer = @ + 1] :
        item \in {x \in items : x.pointer < Len(x.rhs) /\ x.rhs[x.pointer + 1] = X}}

(* the states the table leads to from the states seen *)
RECURSIVE ReachableStates(_, _)
ReachableStates(table, seen) ==
    LET more == seen \cup {table[key] : key \in {k \in DOMAIN table : k[1] \in seen}}
    IN IF more = seen THEN seen ELSE ReachableStates(table, more)

TableSound(tt) ==
    LET states == 0 .. (Len(tt.itemsets) - 1) IN
    /\ Len(tt.kernels) = Len(tt.itemsets)
    /\ \A s, t \in states : s # t => tt.kernels[s + 1] # tt.kernels[t + 1]
    /\ \A s \in states :
          \A X \in AfterDot(tt.itemsets[s + 1]) :
             /\ <<s, X>> \in DOMAIN tt.translation_table
             /\ tt.translation_table[<<s, X>>] \in states
             /\ tt.kernels[tt.translation_table[<<s, X>>] + 1]
                   = MovedOver(tt.itemsets[s + 1], X)
    /\ ReachableStates(tt.translation_table, {0}) = states
    /\ DOMAIN tt.translation_table
          = {k \in states \X UNION {AfterDot(tt.itemsets[i]) : i \in DOMAIN tt.itemsets} :
                k[2] \in AfterDot(tt.itemsets[k[1] + 1])}

TablesSoundAt ==
    Tabulated([i \in DOMAIN Setups |-> \A t \in TablesAt[i] : TableSound(t.tt)])

(* C29: in a translation table as constructed, no two states have the same
   kernel; for every state s and every symbol X that follows a dot in s the
   table has an entry for (s, X), and it is the state whose kernel is
   advance(s, X), the items of s with the dot before X with the dot moved
   over X; every state is reachable from state 0 through the table; and the
   table has no other entries. *)
C29_TableIsTheAutomaton ==
    phase # "init" => TablesSoundAt[sid]

(* a parser was built from a table in which a kernel was found again: two
   entries lead to one state, and one of them leads back to the state it
   comes from or to an earlier one *)
C29_Witness ==
    /\ phase = "built"
    /\ \E t \in TablesAt[sid] :
          \E k1, k2 \in DOMAIN t.tt.translation_table :
             /\ k1 # k2
             /\ t.tt.translation_table[k1] = t.tt.translation_table[k2]
             /\ t.tt.translation_table[k1] <= k1[1]

----------------------------------------------------------------------------
(* build_firstsets called on its own: on the extended grammar of a grammar,
   with the rules iterated in any order (the extended rules are a Python
   set, so the order is not fixed by the program). *)

(* S -> E; E -> A B; A -> (empty) | n; B -> (empty) | +: every symbol of
   E -> A B derives the empty string *)
GNullable ==
    Grammar("S", {"EOF"},
            << Rule("S", <<"E">>, NoPrec, FALSE, NORMAL_MODE),
               Rule("E", <<"A", "B">>, NoPrec, FALSE, NORMAL_MODE),
               Rule("A", <<>>, NoPrec, FALSE, NORMAL_MODE),
               Rule("A", <<"N">>, NoPrec, FALSE, NORMAL_MODE),
               Rule("B", <<>>, NoPrec, FALSE, NORMAL_MODE),
               Rule("B", <<"PLUS">>, NoPrec, FALSE, NORMAL_MODE) >>)

(* S -> E; E -> A + | *; A -> E * | B n; B -> (empty): E and A are mutually
   left-recursive *)
GMutual ==
    Grammar("S", {"EOF"},
            << Rule("S", <<"E">>, NoPrec, FALSE, NORMAL_MODE),
               Rule("E", <<"A", "PLUS">>, NoPrec, FALSE, NORMAL_MODE),
               Rule("E", <<"STAR">>, NoPrec, FALSE, NORMAL_MODE),
               Rule("A", <<"E", "STAR">>, NoPrec, FALSE, NORMAL_MODE),
               Rule("A", <<"B", "N">>, NoPrec, FALSE, NORMAL_MODE),
               Rule("B", <<>>, NoPrec, FALSE, NORMAL_MODE) >>)

FirstGrammars ==
    << GSum(FALSE), GAmb(1, FALSE), GEps, GLoop, GRR, GPartials, GNullable, GMutual >>

ExtendedGrammars ==
    Tabulated([k \in DOMAIN FirstGrammars |->
        build_extended_grammar(TranslationTable(FirstGrammars[k]))])

(* what build_followsets returns for each of them *)
FollowSetsOf ==
    Tabulated([k \in DOMAIN FirstGrammars |-> build_followsets(ExtendedGrammars[k])])

(* every order a set can be iterated in *)
FirstInit ==
    /\ IdleInit
    /\ textspans = NoSpans
    /\ pass = "none"
    /\ open = <<>>
    /\ scopes = <<>>
    /\ helper = NoHelper
    /\ rewrite = NoRewrite
    /\ asm = NoAsm
    /\ build = NoBuild
    /\ flatten = NoFlatten
    /\ \E k \in DOMAIN FirstGrammars :
          \E order \in Orders(first_nzrules(ExtendedGrammars[k])) :
             firstrun = [grammar |-> k, order |-> order, firstsets |-> <<>>,
                         done |-> FALSE, followsets |-> <<>>, followed |-> FALSE]

(* grammar.build_firstsets() *)
BuildFirstsets ==
    /\ firstrun.grammar # 0
    /\ ~firstrun.done
    /\ firstrun' = [firstrun EXCEPT
                      !.firstsets = build_firstsets_in(ExtendedGrammars[firstrun.grammar],
                                                       firstrun.order),
                      !.done = TRUE]
    /\ UNCHANGED <<idleVars, textspans, passVars, rewrite, asm, build, flatten>>

(* grammar.build_followsets() *)
BuildFollowsets ==
    /\ firstrun.grammar # 0
    /\ ~firstrun.followed
    /\ firstrun' = [firstrun EXCEPT
                      !.followsets = FollowSetsOf[firstrun.grammar],
                      !.followed = TRUE]
    /\ UNCHANGED <<idleVars, textspans, passVars, rewrite, asm, build, flatten>>

FirstNext ==
    \/ BuildFirstsets
    \/ BuildFollowsets

FirstSpec == FirstInit /\ [][FirstNext]_vars

(* what the FIRST equations give for a right-hand side X1 ... Xn: FIRST(Xi)
   without the empty string for every i with X1 .. Xi-1 all deriving the
   empty string, and the empty string when all of X1 .. Xn derive it *)
FirstOfRhs(F, rhs) ==
    UNION {F[rhs[i]] \ {EMPTY} :
             i \in {j \in DOMAIN rhs : \A m \in 1 .. (j - 1) : EMPTY \in F[rhs[m]]}}
    \cup (IF \A m \in DOMAIN rhs : EMPTY \in F[rhs[m]] THEN {EMPTY} ELSE {})

(* the right-hand sides of the FIRST equations, read with the sets F *)
FirstEquations(grammar, F) ==
    [sym \in symbols(grammar) |->
        IF is_terminal_x(sym) THEN {sym[2]}
        ELSE UNION {FirstOfRhs(F, r.rhs) : r \in {x \in grammar.rules : x.lhs = sym}}]

(* the least solution: the limit of the equations applied to all symbols at
   once, starting from empty sets *)
RECURSIVE LeastFirst(_, _)
LeastFirst(grammar, F) ==
    LET next == FirstEquations(grammar, F)
    IN IF next = F THEN F ELSE LeastFirst(grammar, next)

LeastFirstOf ==
    Tabulated([k \in DOMAIN FirstGrammars |->
        LeastFirst(ExtendedGrammars[k], [sym \in symbols(ExtendedGrammars[k]) |-> {}])])

(* C30: what build_firstsets returns is the least solution of the FIRST
   equations, in whatever order the rules are visited: FIRST(t) = {t} for a
   terminal t; the empty string is in FIRST(V) for each rule V -> (empty);
   for each rule V -> X1 ... Xn, FIRST(V) contains FIRST(Xi) without the
   empty string for every i such that X1 .. Xi-1 all derive the empty
   string, and the empty string if X1 .. Xn all derive it; and no set holds
   more than these equations force. *)
C30_FirstSetsLeastSolution ==
    firstrun.done =>
        LET grammar == ExtendedGrammars[firstrun.grammar]
            F == firstrun.firstsets
        IN /\ DOMAIN F = symbols(grammar)
           /\ \A sym \in symbols(grammar) : is_terminal_x(sym) => F[sym] = {sym[2]}
           /\ \A r \in grammar.rules :
                 /\ Len(r.rhs) = 0 => EMPTY \in F[r.lhs]
                 /\ FirstOfRhs(F, r.rhs) \subseteq F[r.lhs]
           /\ F = LeastFirstOf[firstrun.grammar]

(* build_firstsets has returned for a grammar with a rule of two symbols that
   both derive the empty string, visited in an order in which the first pass
   over the rules does not yet give the result *)
C30_Witness ==
    /\ firstrun.done
    /\ \E r \in ExtendedGrammars[firstrun.grammar].rules :
          /\ Len(r.rhs) = 2
          /\ \A m \in DOMAIN r.rhs : EMPTY \in firstrun.firstsets[r.rhs[m]]
          /\ EMPTY \in firstrun.firstsets[r.lhs]
    /\ first_pass(first_rules12(ExtendedGrammars[firstrun.grammar]), firstrun.order)
          # firstrun.firstsets

----------------------------------------------------------------------------
(* the positions of a rule that hold a nonterminal, each with the string
   beta that follows it *)
Tails(rule) ==
    {[D |-> rule.rhs[k], beta |-> SubSeq(rule.rhs, k + 1, Len(rule.rhs))] :
        k \in {j \in DOMAIN rule.rhs : ~is_terminal_x(rule.rhs[j])}}

(* the FOLLOW conditions for one rule R -> alpha D beta, with FIRST sets F
   and FOLLOW sets W *)
FollowConditions(F, W, rule) ==
    \A t \in Tails(rule) :
       /\ (FirstOfRhs(F, t.beta) \ {EMPTY}) \subseteq W[t.D]
       /\ EMPTY \in FirstOfRhs(F, t.beta) => W[rule.lhs] \subseteq W[t.D]

(* C31: what build_followsets returns satisfies the FOLLOW conditions: for
   every rule R -> alpha D beta with D a nonterminal, FOLLOW(D) contains
   FIRST(beta) without the empty string, and no FOLLOW set contains the
   marker of the empty string; if beta derives the empty string, and so in
   particular for R -> alpha D, FOLLOW(D) contains FOLLOW(R); and
   FOLLOW(start) contains the end symbols.  The code breaks this: it adds
   FIRST of the one symbol after D, marker included, and passes FOLLOW(R)
   on to the last symbol of the rule only. *)
C31_FollowSetsSound ==
    firstrun.followed =>
        LET grammar == ExtendedGrammars[firstrun.grammar]
            F == LeastFirstOf[firstrun.grammar]
            W == firstrun.followsets
        IN /\ DOMAIN W = symbols(grammar)
           /\ \A sym \in symbols(grammar) : EMPTY \notin W[sym]
           /\ \A rule \in grammar.rules : FollowConditions(F, W, rule)
           /\ {s[2] : s \in grammar.end_symbols} \subseteq W[grammar.start_symbol]

----------------------------------------------------------------------------
(* a step of the parse loop that carried out Reduce(lhs, n) *)
ReduceTaken ==
    /\ phase = "parsing"
    /\ Top.pc = "dispatch"
    /\ TopEntry.action = "reduce"
    /\ phase' = "parsing"
    /\ frames' # frames

(* the entry the reduce pushed and the entries it popped *)
Pushed == Last(Last(frames').output)

Popped ==
    {Top.output[i] : i \in {j \in DOMAIN Top.output : j > Len(Top.output) - TopEntry.arg}}

SpanGivenToMakeNode ==
    Len(Top.path) = 0 => Pushed.node.span = Pushed.span

CoversPopped ==
    /\ \A p \in Popped :
          /\ TupleLE(span_start(Pushed.span), span_start(p.span))
          /\ TupleLE(span_end(p.span), span_end(Pushed.span))
    /\ \E p \in Popped : span_start(p.span) = span_start(Pushed.span)
    /\ \E p \in Popped : span_end(p.span) = span_end(Pushed.span)

(* C32 as stated: for a Reduce(lhs, n) with n = 0 the span given to
   make_node and pushed on the output stack is zero-width, its start equals
   its end, and lies between the end of the last output entry and the start
   of the lookahead; for n > 0 it is the cover of the n popped spans. *)
C32_EmptyReductionZeroWidth ==
    [][ReduceTaken =>
          /\ SpanGivenToMakeNode
          /\ IF TopEntry.arg = 0
             THEN /\ span_start(Pushed.span) = span_end(Pushed.span)
                  /\ Len(Top.output) > 0 =>
                        TupleLE(span_end(Last(Top.output).span), span_start(Pushed.span))
                  /\ TupleLE(span_end(Pushed.span), span_start(Top.lookahead.span))
             ELSE CoversPopped]_vars

(* C32, amended: for a Reduce(lhs, n) with n = 0 the span given to make_node
   and pushed on the output stack runs from the end of the last output entry
   to the start of the lookahead, so it is zero-width only when nothing lies
   between the two, and it is the empty span at the start of the lookahead
   when the output stack is empty; for n > 0 it is the cover of the n popped
   spans. *)
C32_EmptyReductionFillsGap ==
    [][ReduceTaken =>
          /\ SpanGivenToMakeNode
          /\ IF TopEntry.arg = 0
             THEN /\ span_end(Pushed.span) = span_start(Top.lookahead.span)
                  /\ span_start(Pushed.span)
                        = IF Len(Top.output) > 0
                          THEN span_end(Last(Top.output).span)
                          ELSE span_start(Top.lookahead.span)
             ELSE CoversPopped]_vars

(* an empty reduction has pushed a node whose span is not zero-width: a
   comment lies between the last token and the lookahead *)
C32_Witness ==
    /\ phase = "parsing"
    /\ Len(MainFrame.output) > 1
    /\ LET top == Last(MainFrame.output) IN
          /\ top.node.kind = "node"
          /\ top.node.children = <<>>
          /\ span_start(top.span) # span_end(top.span)
          /\ span_start(top.span) = span_end(MainFrame.output[Len(MainFrame.output) - 1].span)

----------------------------------------------------------------------------
(* the scoped nodes the traversal is visiting, outermost first *)
ScopedOpen == SelectSeq(open, IsScoped)

(* the last call bound a name or a constant *)
Bound == helper.op \in {"bind_name", "bind_constant"} /\ helper.kind = "ok"

BoundAttr == IF helper.op = "bind_name" THEN "known_names" ELSE "known_constants"

(* C33: in a ScopedPass traversal every node of a scoped kind (unit, fun)
   is cloned and pushed on the scope stack when it is entered and popped
   when its exit is over, so that at every moment the depth of the scope
   stack is the number of scoped nodes being visited and its entries are
   their clones, in order; a binding made while a scope is the innermost
   one being visited lands in that scope and leaves the outer ones as they
   were; an exit of a scoped node takes exactly one scope off the stack the
   exit handlers saw, an exit of another node none; and the stack is empty
   when the traversal is complete. *)
C33_ScopeStackFollowsTraversal ==
    /\ Len(scopes) = Len(ScopedOpen)
    /\ \A i \in DOMAIN scopes :
          /\ scopes[i].t = ScopedOpen[i].t
          /\ DOMAIN ScopedOpen[i].attrs \subseteq DOMAIN scopes[i].attrs
    /\ Bound =>
          /\ Len(scopes) = Len(helper.before)
          /\ \A i \in 1 .. (Len(scopes) - 1) : scopes[i] = helper.before[i]
          /\ BoundAttr \in DOMAIN Last(scopes).attrs
          /\ helper.name \in DOMAIN Last(scopes).attrs[BoundAttr]
          /\ Last(scopes).attrs[BoundAttr][helper.name] = helper.value
    /\ helper.op = "transform_exit" =>
          Len(scopes) = Len(helper.before) - (IF IsScoped(helper.returned) THEN 1 ELSE 0)
    /\ helper.op = "transform_enter" =>
          Len(scopes) = Len(helper.before) + (IF IsScoped(Last(open)) THEN 1 ELSE 0)
    /\ open = <<>> => scopes = <<>>

(* a name was bound while a fun inside a unit was being visited: it is in
   the scope of the fun and not in that of the unit *)
C33_Witness ==
    /\ helper.op = "bind_name"
    /\ helper.kind = "ok"
    /\ Len(open) = 2
    /\ open[1].t = "unit"
    /\ open[2].t = "fun"
    /\ open[1].attrs = EmptyDict
    /\ "known_names" \in DOMAIN scopes[2].attrs
    /\ "known_names" \notin DOMAIN scopes[1].attrs

----------------------------------------------------------------------------
(* The loops of Grammar.build_parser, one round at a time: the completion
   loop of ItemSet.__init__, the while and for loops of
   TranslationTable.__init__, and the update loops of build_firstsets and
   build_followsets, one rule at a time. *)

(* S -> E; E -> E + E | n: left-recursive, and the state after E + E goes
   back to the state after E + *)
GPlus ==
    Grammar("S", {"EOF"},
            << Rule("S", <<"E">>, NoPrec, FALSE, NORMAL_MODE),
               Rule("E", <<"E", "PLUS", "E">>, NoPrec, FALSE, NORMAL_MODE),
               Rule("E", <<"N">>, NoPrec, FALSE, NORMAL_MODE) >>)

(* S -> E; E -> A + ; A -> E * | n: E and A are mutually left-recursive *)
GLeftPair ==
    Grammar("S", {"EOF"},
            << Rule("S", <<"E">>, NoPrec, FALSE, NORMAL_MODE),
               Rule("E", <<"A", "PLUS">>, NoPrec, FALSE, NORMAL_MODE),
               Rule("A", <<"E", "STAR">>, NoPrec, FALSE, NORMAL_MODE),
               Rule("A", <<"N">>, NoPrec, FALSE, NORMAL_MODE) >>)

BuildGrammars == << GSum(FALSE), GEps, GPlus, GLeftPair >>

BuildGrammar == BuildGrammars[build.grammar]

(* lines 351-358: nzrules, the rules that rule 3 applies to, in the order
   the rules were iterated in *)
nzrules_in(xg, order) == SelectSeq(order, LAMBDA rule : rule \in first_nzrules(xg))

BuildInit ==
    /\ IdleInit
    /\ textspans = NoSpans
    /\ pass = "none"
    /\ open = <<>>
    /\ scopes = <<>>
    /\ helper = NoHelper
    /\ rewrite = NoRewrite
    /\ asm = NoAsm
    /\ firstrun = NoFirstRun
    /\ flatten = NoFlatten
    /\ \E k \in DOMAIN BuildGrammars :
          LET grammar == BuildGrammars[k]
              startitem == with_pointer(
                  grammar.rules[find_starting_rule_index(grammar).index], 0)
          IN build = [NoBuild EXCEPT
                        !.grammar = k,
                        !.pc = "closing",
                        !.items = {startitem},
                        !.tt = [end_symbols |-> grammar.end_symbols,
                                translation_table |-> <<>>,
                                itemsets |-> <<>>,
                                kernels |-> <<{startitem}>>]]

Built(next) ==
    /\ build' = next
    /\ UNCHANGED <<idleVars, textspans, passVars, rewrite, asm, firstrun, flatten>>

(* lines 248-257: one round of the completion of the item set under
   construction; when it adds nothing the set is appended (lines 570, 585)
   and the transition that asked for it is recorded (line 586) *)
ClosureRound ==
    /\ build.pc = "closing"
    /\ LET grown == ItemSet_round(BuildGrammar, build.items) IN
       IF ~ItemSet_stable(build.items, grown)
       THEN Built([build EXCEPT !.items = grown])
       ELSE IF build.symbol = NoneSym
       THEN Built([build EXCEPT !.tt.itemsets = Append(@, grown),
                                !.items = {},
                                !.pc = "while"])
       ELSE Built([build EXCEPT
                     !.tt.itemsets = Append(@, grown),
                     !.tt.translation_table =
                         (<<build.current, build.symbol>> :> Len(build.tt.itemsets)) @@ @,
                     !.items = {},
                     !.symbol = NoneSym,
                     !.todo = Tail(@),
                     !.pc = "for"])

(* line 576: while current < len(self.itemsets); after the loop
   build_parser goes on to the extended grammar and, in build_followsets,
   to rules 1 and 2 of build_firstsets (lines 452-454, 399, 339-358).  The
   symbols after the dots and the rules of the extended grammar are sets:
   the order a run iterates them in is any order, and for the rules it is
   the same order in every pass (nzrules is a list filled in that order). *)
WhileState ==
    /\ build.pc = "while"
    /\ IF build.current < Len(build.tt.itemsets)
       THEN \E order \in Orders(next_symbols(build.tt.itemsets[build.current + 1])) :
               Built([build EXCEPT !.todo = order, !.pc = "for"])
       ELSE LET xg == build_extended_grammar(build.tt) IN
            \E order \in Orders(xg.rules) :
               Built([build EXCEPT !.xg = xg,
                                   !.rules = order,
                                   !.firstsets = first_rules12(xg),
                                   !.todo = nzrules_in(xg, order),
                                   !.updated = FALSE,
                                   !.pc = "first"])

(* lines 577-587: one symbol of the for loop, or its end *)
ForSymbol ==
    /\ build.pc = "for"
    /\ IF Len(build.todo) = 0
       THEN Built([build EXCEPT !.current = @ + 1, !.pc = "while"])
       ELSE LET symbol == Head(build.todo)
                key == advance(build.tt.itemsets[build.current + 1], symbol)
                found == itemset_index_get(build.tt.kernels, key)
            IN IF found # NoState
               THEN Built([build EXCEPT
                             !.tt.translation_table =
                                 (<<build.current, symbol>> :> found) @@ @,
                             !.todo = Tail(@)])
               ELSE Built([build EXCEPT !.tt.kernels = Append(@, key),
                                        !.items = key,
                                        !.symbol = symbol,
                                        !.pc = "closing"])

(* lines 366-385: one rule of "for rule in nzrules", or the end of the
   pass: another pass if a set grew; if none did, build_followsets goes on
   and pre-populates its sets (lines 403-419) *)
FirstRule ==
    /\ build.pc = "first"
    /\ IF Len(build.todo) > 0
       THEN LET next == first_rule(build.firstsets, Head(build.todo), 1) IN
            Built([build EXCEPT
                     !.firstsets = next,
                     !.updated = @ \/ first_updated(build.firstsets, next),
                     !.todo = Tail(@)])
       ELSE IF build.updated
       THEN Built([build EXCEPT !.todo = nzrules_in(build.xg, build.rules),
                                !.updated = FALSE])
       ELSE Built([build EXCEPT
                     !.followsets = follow_init(build.xg, build.firstsets),
                     !.todo = build.rules,
                     !.pc = "follow"])

(* lines 425-440: one rule of "for rule in self.rules", or the end of the
   pass *)
FollowRule ==
    /\ build.pc = "follow"
    /\ IF Len(build.todo) > 0
       THEN LET next == follow_pass(build.followsets, <<Head(build.todo)>>) IN
            Built([build EXCEPT
                     !.followsets = next,
                     !.updated = @ \/ follow_updated(build.followsets, next),
                     !.todo = Tail(@)])
       ELSE IF build.updated
       THEN Built([build EXCEPT !.todo = build.rules,
                                !.updated = FALSE])
       ELSE Built([build EXCEPT !.pc = "done"])

BuildNext ==
    \/ ClosureRound
    \/ WhileState
    \/ ForSymbol
    \/ FirstRule
    \/ FollowRule

BuildSpec == BuildInit /\ [][BuildNext]_vars

(* the interpreter runs the loops on: a round that can be taken is taken *)
BuildFairSpec == BuildSpec /\ WF_vars(BuildNext)

(* the item sets of each grammar, whatever numbers the states get *)
ItemSetsOfGrammar ==
    Tabulated([k \in DOMAIN BuildGrammars |->
        Range(TranslationTable(BuildGrammars[k]).itemsets)])

(* the loops have ended, each at a fixed point: the states are the item
   sets of the grammar, every one closed and with an entry for each symbol
   after a dot, and applying rule 3 or the FOLLOW rule to any rule of the
   extended grammar adds nothing *)
BuildDone ==
    /\ build.pc = "done"
    /\ Range(build.tt.itemsets) = ItemSetsOfGrammar[build.grammar]
    /\ Len(build.tt.itemsets) = Cardinality(ItemSetsOfGrammar[build.grammar])
    /\ \A i \in DOMAIN build.tt.itemsets :
          /\ ItemSet_round(BuildGrammar, build.tt.itemsets[i]) = build.tt.itemsets[i]
          /\ \A symbol \in next_symbols(build.tt.itemsets[i]) :
                /\ <<i - 1, symbol>> \in DOMAIN build.tt.translation_table
                /\ build.tt.kernels[build.tt.translation_table[<<i - 1, symbol>>] + 1]
                      = advance(build.tt.itemsets[i], symbol)
    /\ build.xg.rules = Range(build.rules)
    /\ \A rule \in build.xg.rules :
          /\ rule \in first_nzrules(build.xg) => first_rule(build.firstsets, rule, 1) = build.firstsets
          /\ follow_pass(build.followsets, <<rule>>) = build.followsets

(* C34: build_parser terminates for every finite grammar: the completion
   loop of every item set, the worklist over the states, and the FIRST and
   FOLLOW update loops each reach a round that changes nothing and stop
   there, for left-recursive and mutually recursive rules too. *)
C34_BuildTerminates == <>BuildDone

(* the loops have ended on a grammar with a left-recursive rule whose table
   has a transition back to an earlier state *)
C34_Witness ==
    /\ BuildDone
    /\ \E k \in DOMAIN BuildGrammar.rules :
          /\ Len(BuildGrammar.rules[k].rhs) > 0
          /\ BuildGrammar.rules[k].rhs[1] = BuildGrammar.rules[k].lhs
    /\ \E key \in DOMAIN build.tt.translation_table :
          build.tt.translation_table[key] <= key[1]

(* ---------------------------------------------------------------- *)
(* The two stacks of Parser.__call__ (lines 702-748)                 *)

(* the stacks of a call as the head of the loop finds them *)
StacksAligned(frame) ==
    /\ Len(frame.set_stack) = Len(frame.output) + 1
    /\ frame.set_stack[1] = 0

(* the running call after a step that neither starts nor ends a call *)
TopAfter == frames'[Len(frames)]

(* what a shift does to the two stacks (lines 719-721) *)
ShiftEffect ==
    /\ Len(TopAfter.output) = Len(Top.output) + 1
    /\ Len(TopAfter.set_stack) = Len(Top.set_stack) + 1
    /\ SubSeq(TopAfter.set_stack, 1, Len(Top.set_stack)) = Top.set_stack

(* what a Reduce(lhs, n) does to the two stacks (lines 724-748): the n
   entries are there to be removed, and unless the lookup of the goto entry
   raises, one entry is added to each stack *)
ReduceEffect ==
    LET n == TopEntry.arg
        kept == Len(Top.set_stack) - n
    IN  /\ n <= Len(Top.output)
        /\ outcome' \notin {"ValueError", "IndexError"}
        /\ \/ phase' # "parsing"
           \/ /\ Len(TopAfter.output) = Len(Top.output) - n + 1
              /\ Len(TopAfter.set_stack) = kept + 1
              /\ SubSeq(TopAfter.set_stack, 1, kept) = SubSeq(Top.set_stack, 1, kept)

(* C35: at every iteration of the parse loop, in the main call and in the
   calls of the hidden parsers, the state stack has one more entry than the
   output stack and state 0 at the bottom; a shift adds one entry to each, a
   Reduce(lhs, n) finds at least n entries on the output stack, so that state
   0 stays, and leaves each stack n entries shorter and one longer. *)
C35_StacksAligned ==
    /\ [](phase = "parsing" => \A i \in DOMAIN frames : StacksAligned(frames[i]))
    /\ [][(ShiftStep => ShiftEffect) /\ (ReduceStep => ReduceEffect)]_vars

(* a reduce of three entries has been carried out above two entries that
   stay on the stacks *)
C35_Witness ==
    /\ phase = "parsing"
    /\ Len(MainFrame.output) = 3
    /\ Len(MainFrame.set_stack) = 4
    /\ Last(MainFrame.output).node.kind = "node"
    /\ Len(Last(MainFrame.output).node.children) = 3

(* ---------------------------------------------------------------- *)
(* The goto lookup of a reduce (lines 724-748)                       *)

(* the state stack after the pops of a Reduce(lhs, n) (line 728) *)
AfterPops(frame, n) ==
    IF n > 0 THEN PyDropSuffix(frame.set_stack, n) ELSE frame.set_stack

(* the table has the entry line 745 looks up, and it is a state of the
   table, as build_parser copies it from the translation table *)
GotoFound(parser, frame) ==
    LET entry == Lookup(parser.agtable,
                        <<Last(frame.set_stack), frame.lookahead.t>>, NoEntry)
        kept == AfterPops(frame, entry.arg)
    IN  entry.action = "reduce" =>
          /\ Len(kept) > 0
          /\ <<Last(kept), entry.sym>> \in DOMAIN parser.agtable
          /\ parser.agtable[<<Last(kept), entry.sym>>].action = "goto"
          /\ parser.agtable[<<Last(kept), entry.sym>>].arg
                \in 0 .. (Len(parser.modes) - 1)

(* C36: whenever the parse loop of the main parser or of a hidden parser is
   about to execute a Reduce(lhs, n), the table build_parser produced has a
   goto entry for the state on top of the stack after the n pops and lhs,
   and no call ends with the KeyError of that lookup.  The code breaks this
   for a grammar with the start symbol on a right-hand side: the state that
   accepts at the end of input reduces the start rule on every other symbol
   that can follow the start symbol, also where nothing is on the stack to
   go to. *)
C36_GotoNeverFails ==
    /\ (phase = "parsing" /\ Top.pc = "dispatch") => GotoFound(TopParser, Top)
    /\ ~(outcome = "KeyError" /\ origin = "Parser.__call__")

(* ---------------------------------------------------------------- *)
(* Declared sizes and emitted bytes (asm.py lines 34-113)            *)

RECURSIVE SumOf(_)
SumOf(numbers) ==
    IF Len(numbers) = 0 THEN 0 ELSE Head(numbers) + SumOf(Tail(numbers))

(* the size each opcode declares *)
DeclaredSize == [opcode \in {"lda", "sta", "jmp", "rts"} |->
                    CASE opcode = "lda" -> 2
                      [] opcode \in {"sta", "jmp"} -> 3
                      [] opcode = "rts" -> 1]

(* where the bytes of the i-th instruction begin in the text, counted from
   the declared sizes *)
OffsetOf(i) == SumOf([k \in 1 .. (i - 1) |-> flatten.body[k].size])

(* C37: every instruction node the constructors build declares the size 2
   (lda), 3 (sta, jmp) or 1 (rts), and the AsmRun that
   AssembleWithRelocations puts in its place has that many bytes; the text
   FlattenSymbol.exit_fun produces is as long as the sum of the declared
   sizes, and the bytes of each instruction lie in it at the offset the
   sizes of the instructions before it add up to. *)
C37_SizeIsBytesEmitted ==
    /\ \A i \in DOMAIN flatten.body :
          flatten.body[i].size = DeclaredSize[flatten.body[i].opcode]
    /\ \A i \in 1 .. flatten.visited :
          /\ flatten.children[i].kind = "AsmRun"
          /\ Len(flatten.children[i].data) = flatten.body[i].size
    /\ flatten.pc = "flattened" =>
          /\ Len(flatten.text) =
                SumOf([i \in DOMAIN flatten.body |-> flatten.body[i].size])
          /\ \A i \in DOMAIN flatten.body :
                SubSeq(flatten.text, OffsetOf(i) + 1,
                       OffsetOf(i) + flatten.body[i].size)
                  = flatten.children[i].data

(* lda #$FF, sta $D020, rts flattened into six bytes *)
C37_Witness ==
    /\ flatten.pc = "flattened"
    /\ Len(flatten.body) = 3
    /\ flatten.body[1].opcode = "lda"
    /\ flatten.body[2].opcode = "sta"
    /\ flatten.body[3].opcode = "rts"
    /\ flatten.text = <<169, 255, 141, 32, 208, 96>>

====
